---- MODULE Spec2Model ----
(***************************************************************************)
(* RBAC store of va1da5/aws-dynamodb-store: users, roles and permissions   *)
(* kept as items of one DynamoDB table keyed by (PK, SK), the repository   *)
(* layer (internal/repository/dynamodb) that encodes entities and edges as *)
(* items, and the service layer (internal/service) that resolves           *)
(* permissions.  Strings are strings: keys are built by concatenation and  *)
(* taken apart by slicing, as the code does.                               *)
(***************************************************************************)
EXTENDS Integers, Sequences, FiniteSets, TLC

VARIABLES
    table,      \* the DynamoDB table: a function from <<PK, SK>> to the item
    now,        \* the wall clock read by time.Now()
    created,    \* history: the entities whose Create returned nil, by kind
    granted,    \* history: <<roleID, permissionID>> for which
                \*   AssignPermissionToRole returned nil
    ret,        \* the last completed call: operation, arguments and results
    calls,      \* the calls of concurrent callers that are in progress
    proc        \* the server process (cmd/api/main.go): the main goroutine,
                \*   the gracefulShutdown goroutine, the done channel and
                \*   the HTTP server

vars == <<table, now, created, granted, ret, calls, proc>>

(***************************************************************************)
(* Bounds of the model.                                                    *)
(***************************************************************************)
MaxTime == 2

(***************************************************************************)
(* Program constants (dynamodb_rbac.go).                                   *)
(***************************************************************************)
EntityTypeUser == "USER"
EntityTypeRole == "ROLE"
EntityTypePermission == "PERMISSION"
MetadataPrefix == "METADATA#"
UserPrefix == "USER#"
RolePrefix == "ROLE#"
PermissionPrefix == "PERMISSION#"

\* The zero value of time.Time: what a caller leaves in CreatedAt/UpdatedAt.
ZeroTime == 0

(***************************************************************************)
(* Errors.  An error is the chain of messages from the outermost wrapper   *)
(* to the innermost error; nil is the empty chain.                         *)
(***************************************************************************)
Nil == << >>
ErrNotFound == <<"entity not found">>
ErrAlreadyExists == <<"entity already exists">>
\* An error of the AWS SDK that is not a conditional-check failure.
StoreErr == <<"dynamodb: request failed">>
\* types.ConditionalCheckFailedException
CondCheckFailed == <<"ConditionalCheckFailedException">>

\* fmt.Errorf(msg + ": %w", err)
Wrap(msg, err) == <<msg>> \o err

\* errors.Is(err, target): some error of the chain is the target.
ErrorsIs(err, target) ==
    \E i \in 1..Len(err) : SubSeq(err, i, Len(err)) = target

(***************************************************************************)
(* The table.                                                              *)
(***************************************************************************)
EmptyMap == [a \in {} |-> ""]

\* An attribute with `omitempty`: left out of the item when it is empty.
OmitEmpty(name, value) == IF value = "" THEN EmptyMap ELSE name :> value

\* The value of a string attribute, "" (the zero value) when it is absent.
Attr(av, name) == IF name \in DOMAIN av THEN av[name] ELSE ""

\* The value of a time attribute, the zero time when it is absent.
TimeAttr(av, name) == IF name \in DOMAIN av THEN av[name] ELSE ZeroTime

KeyOf(av) == <<av["PK"], av["SK"]>>

\* PutItem without a condition: insert or replace the item at its key.
PutItem(tbl, av) ==
    [k \in DOMAIN tbl \cup {KeyOf(av)} |-> IF k = KeyOf(av) THEN av ELSE tbl[k]]

\* DeleteItem: remove the item at the key, if any.
DeleteItem(tbl, pk, sk) ==
    [k \in DOMAIN tbl \ {<<pk, sk>>} |-> tbl[k]]

\* attribute_not_exists(PK), evaluated on the item that has the new item's key.
ConditionHolds(tbl, av) == KeyOf(av) \notin DOMAIN tbl

(***************************************************************************)
(* dynamodb_rbac.go: the two helpers every entity repository uses.  `fail` *)
(* says whether the store call fails with an SDK error.                    *)
(***************************************************************************)
\* The store refuses an item whose attribute EntityID, the sort key of index
\* EntityTypeIndex, is the empty string.
IndexKeyEmpty(av) == "EntityID" \in DOMAIN av /\ av["EntityID"] = ""

\* A guarded PutItem that reports the failed condition and writes anyway.
PutItemIfAbsent_WritesAnyway(tbl, av, fail) ==
    IF fail THEN [table |-> tbl, err |-> StoreErr]
    ELSE IF ~ConditionHolds(tbl, av)
    THEN [table |-> PutItem(tbl, av), err |-> CondCheckFailed]
    ELSE [table |-> PutItem(tbl, av), err |-> Nil]

\* PutItem with ConditionExpression attribute_not_exists(PK): one atomic
\* store operation.
PutItemIfAbsent(tbl, av, fail) ==
    IF fail \/ IndexKeyEmpty(av) THEN [table |-> tbl, err |-> StoreErr]
    ELSE IF ~ConditionHolds(tbl, av) THEN [table |-> tbl, err |-> CondCheckFailed]
    ELSE [table |-> PutItem(tbl, av), err |-> Nil]

\* createItem without the condition: a plain PutItem.
createItem_Unconditional(tbl, av, fail) ==
    IF fail THEN [table |-> tbl, err |-> Wrap("failed to put item", StoreErr)]
    ELSE [table |-> PutItem(tbl, av), err |-> Nil]

\* createItem: the guarded PutItem; a failed condition is ErrAlreadyExists.
createItem(tbl, av, fail) ==
    LET r == PutItemIfAbsent(tbl, av, fail)
    IN  IF r.err = Nil THEN [table |-> r.table, err |-> Nil]
        ELSE IF r.err = CondCheckFailed
        THEN [table |-> r.table, err |-> ErrAlreadyExists]
        ELSE [table |-> r.table, err |-> Wrap("failed to put item", r.err)]

\* getItemById: GetItem on the full key; a missing item is ErrNotFound.
getItemById(tbl, pk, sk, fail) ==
    IF fail THEN [found |-> FALSE, item |-> EmptyMap,
                  err |-> Wrap("failed to get user item", StoreErr)]
    ELSE IF <<pk, sk>> \notin DOMAIN tbl
         THEN [found |-> FALSE, item |-> EmptyMap, err |-> ErrNotFound]
    ELSE [found |-> TRUE, item |-> tbl[<<pk, sk>>], err |-> Nil]

(***************************************************************************)
(* Users (user repository).                                                *)
(***************************************************************************)
NoUser == [ID |-> "", DisplayName |-> "", Email |-> "",
           CreatedAt |-> ZeroTime, UpdatedAt |-> ZeroTime]

userToItem(user) ==
    [PK |-> UserPrefix \o user.ID,
     SK |-> MetadataPrefix \o user.ID,
     EntityType |-> EntityTypeUser,
     ID |-> user.ID,
     DisplayName |-> user.DisplayName,
     Email |-> user.Email,
     CreatedAt |-> user.CreatedAt,
     UpdatedAt |-> user.UpdatedAt]

itemToUser(item) ==
    [ID |-> item.ID,
     DisplayName |-> item.DisplayName,
     Email |-> item.Email,
     CreatedAt |-> item.CreatedAt,
     UpdatedAt |-> item.UpdatedAt]

\* attributevalue.MarshalMap of a userItem, by its dynamodbav tags.
MarshalUserItem(item) ==
    ("PK" :> item.PK) @@ ("SK" :> item.SK)
    @@ OmitEmpty("EntityType", item.EntityType)
    @@ ("EntityID" :> item.ID)
    @@ ("DisplayName" :> item.DisplayName)
    @@ ("Email" :> item.Email)
    @@ ("CreatedAt" :> item.CreatedAt)
    @@ ("UpdatedAt" :> item.UpdatedAt)

\* attributevalue.UnmarshalMap into a userItem.
UnmarshalUserItem(av) ==
    [PK |-> Attr(av, "PK"),
     SK |-> Attr(av, "SK"),
     EntityType |-> Attr(av, "EntityType"),
     ID |-> Attr(av, "EntityID"),
     DisplayName |-> Attr(av, "DisplayName"),
     Email |-> Attr(av, "Email"),
     CreatedAt |-> TimeAttr(av, "CreatedAt"),
     UpdatedAt |-> TimeAttr(av, "UpdatedAt")]

\* CreateUser that stamps the times only when the caller left them zero.
Repo_CreateUser_KeepsCallerTimes(tbl, user, t, fail) ==
    LET stamped == IF user.CreatedAt = ZeroTime
                   THEN [user EXCEPT !.CreatedAt = t, !.UpdatedAt = t]
                   ELSE user
        r == createItem(tbl, MarshalUserItem(userToItem(stamped)), fail)
    IN  [table |-> r.table, err |-> r.err, user |-> stamped]

\* DynamoDBUserRepository.CreateUser: stamps the times, then createItem.
\* `t` is what time.Now().UTC() returns.
Repo_CreateUser(tbl, user, t, fail) ==
    LET stamped == [user EXCEPT !.CreatedAt = t, !.UpdatedAt = t]
        r == createItem(tbl, MarshalUserItem(userToItem(stamped)), fail)
    IN  [table |-> r.table, err |-> r.err, user |-> stamped]

\* DynamoDBUserRepository.GetUserByID
Repo_GetUserByID(tbl, id, fail) ==
    LET out == getItemById(tbl, UserPrefix \o id, MetadataPrefix \o id, fail)
    IN  IF out.err # Nil THEN [user |-> NoUser, err |-> out.err]
        ELSE [user |-> itemToUser(UnmarshalUserItem(out.item)), err |-> Nil]

(***************************************************************************)
(* Roles (role.go) and permissions (permission.go).  domain.Role and       *)
(* domain.Permission have the same fields.                                 *)
(***************************************************************************)
NoEntity == [ID |-> "", DisplayName |-> "", Description |-> "",
             CreatedAt |-> ZeroTime, UpdatedAt |-> ZeroTime]

roleToItem(role) ==
    [PK |-> RolePrefix \o role.ID,
     SK |-> MetadataPrefix \o role.ID,
     EntityType |-> EntityTypeUser,
     ID |-> role.ID,
     DisplayName |-> role.DisplayName,
     Description |-> role.Description,
     CreatedAt |-> role.CreatedAt,
     UpdatedAt |-> role.UpdatedAt]

itemToRole(item) ==
    [ID |-> item.ID,
     DisplayName |-> item.DisplayName,
     Description |-> item.Description,
     CreatedAt |-> item.CreatedAt,
     UpdatedAt |-> item.UpdatedAt]

\* attributevalue.MarshalMap of a roleItem, by its dynamodbav tags.
MarshalRoleItem(item) ==
    ("PK" :> item.PK) @@ ("SK" :> item.SK)
    @@ OmitEmpty("EntityType", item.EntityType)
    @@ ("EntityID" :> item.ID)
    @@ ("DisplayName" :> item.DisplayName)
    @@ OmitEmpty("Description", item.Description)
    @@ ("CreatedAt" :> item.CreatedAt)
    @@ ("UpdatedAt" :> item.UpdatedAt)

\* attributevalue.UnmarshalMap into a roleItem.
UnmarshalRoleItem(av) ==
    [PK |-> Attr(av, "PK"),
     SK |-> Attr(av, "SK"),
     EntityType |-> Attr(av, "EntityType"),
     ID |-> Attr(av, "EntityID"),
     DisplayName |-> Attr(av, "DisplayName"),
     Description |-> Attr(av, "Description"),
     CreatedAt |-> TimeAttr(av, "CreatedAt"),
     UpdatedAt |-> TimeAttr(av, "UpdatedAt")]

\* DynamoDBRoleRepository.CreateRole
Repo_CreateRole(tbl, role, t, fail) ==
    LET stamped == [role EXCEPT !.CreatedAt = t, !.UpdatedAt = t]
        r == createItem(tbl, MarshalRoleItem(roleToItem(stamped)), fail)
    IN  [table |-> r.table, err |-> r.err, role |-> stamped]

\* DynamoDBRoleRepository.GetRoleByID
Repo_GetRoleByID(tbl, id, fail) ==
    LET out == getItemById(tbl, RolePrefix \o id, MetadataPrefix \o id, fail)
    IN  IF out.err # Nil THEN [role |-> NoEntity, err |-> out.err]
        ELSE [role |-> itemToRole(UnmarshalRoleItem(out.item)), err |-> Nil]

\* DynamoDBRoleRepository.ListAllRoles: returns an empty list.
Repo_ListAllRoles(tbl) == [roles |-> << >>, err |-> Nil]

\* DynamoDBRoleRepository.AssignPermissionToRole: writes nothing, returns nil.
Repo_AssignPermissionToRole(tbl, roleID, permissionID) ==
    [table |-> tbl, err |-> Nil]

\* DynamoDBRoleRepository.GetRolePermissions: returns an empty list.
Repo_GetRolePermissions(tbl, roleID) == [permissions |-> << >>, err |-> Nil]

permissionToItem(permission) ==
    [PK |-> RolePrefix \o permission.ID,
     SK |-> MetadataPrefix \o permission.ID,
     EntityType |-> EntityTypeUser,
     ID |-> permission.ID,
     DisplayName |-> permission.DisplayName,
     Description |-> permission.Description,
     CreatedAt |-> permission.CreatedAt,
     UpdatedAt |-> permission.UpdatedAt]

itemToPermission(item) ==
    [ID |-> item.ID,
     DisplayName |-> item.DisplayName,
     Description |-> item.Description,
     CreatedAt |-> item.CreatedAt,
     UpdatedAt |-> item.UpdatedAt]

\* attributevalue.MarshalMap of a permissionItem, by its dynamodbav tags.
MarshalPermissionItem(item) ==
    ("PK" :> item.PK) @@ ("SK" :> item.SK)
    @@ OmitEmpty("EntityType", item.EntityType)
    @@ ("EntityID" :> item.ID)
    @@ ("DisplayName" :> item.DisplayName)
    @@ OmitEmpty("Description", item.Description)
    @@ ("CreatedAt" :> item.CreatedAt)
    @@ ("UpdatedAt" :> item.UpdatedAt)

\* attributevalue.UnmarshalMap into a permissionItem.
UnmarshalPermissionItem(av) ==
    [PK |-> Attr(av, "PK"),
     SK |-> Attr(av, "SK"),
     EntityType |-> Attr(av, "EntityType"),
     ID |-> Attr(av, "EntityID"),
     DisplayName |-> Attr(av, "DisplayName"),
     Description |-> Attr(av, "Description"),
     CreatedAt |-> TimeAttr(av, "CreatedAt"),
     UpdatedAt |-> TimeAttr(av, "UpdatedAt")]

\* DynamoDBPermissionRepository.CreatePermission
Repo_CreatePermission(tbl, permission, t, fail) ==
    LET stamped == [permission EXCEPT !.CreatedAt = t, !.UpdatedAt = t]
        r == createItem(tbl, MarshalPermissionItem(permissionToItem(stamped)), fail)
    IN  [table |-> r.table, err |-> r.err, permission |-> stamped]

\* DynamoDBPermissionRepository.GetPermissionByID
Repo_GetPermissionByID(tbl, id, fail) ==
    LET out == getItemById(tbl, PermissionPrefix \o id, MetadataPrefix \o id, fail)
    IN  IF out.err # Nil THEN [permission |-> NoEntity, err |-> out.err]
        ELSE [permission |-> itemToPermission(UnmarshalPermissionItem(out.item)),
              err |-> Nil]

\* DynamoDBPermissionRepository.ListAllPermissions: returns an empty list.
Repo_ListAllPermissions(tbl) == [permissions |-> << >>, err |-> Nil]

(***************************************************************************)
(* Edges user -> role (user repository).                                   *)
(***************************************************************************)
\* begins_with(s, prefix) of a key condition.
BeginsWith(s, prefix) ==
    Len(s) >= Len(prefix) /\ SubSeq(s, 1, Len(prefix)) = prefix

\* s[len(prefix):]
StripPrefix(s, prefix) == SubSeq(s, Len(prefix) + 1, Len(s))

\* The identifiers of the model in the order DynamoDB sorts strings.
IDOrder == <<"", "a", "a#b", "b", "role-n1", "role-n2", "user-e1", "user-e2">>

Rank(id) == CHOOSE i \in 1..Len(IDOrder) : IDOrder[i] = id

RECURSIVE SortBySK(_, _)
\* The items of `avs` in ascending order of sort key (all carry `prefix`).
SortBySK(avs, prefix) ==
    IF avs = {} THEN << >>
    ELSE LET first == CHOOSE x \in avs : \A y \in avs :
                          Rank(StripPrefix(x["SK"], prefix))
                              <= Rank(StripPrefix(y["SK"], prefix))
         IN  <<first>> \o SortBySK(avs \ {first}, prefix)

\* Query on the table: PK = pk AND begins_with(SK, skPrefix), in key order.
Query(tbl, pk, skPrefix) ==
    SortBySK({tbl[k] : k \in {q \in DOMAIN tbl :
                 q[1] = pk /\ BeginsWith(q[2], skPrefix)}}, skPrefix)

\* The number of items the store returns in one page of a query.
PageSize == 1

\* The number of NextPage calls a paginator makes over n items.
NumPages(n) == IF n = 0 THEN 1 ELSE (n + PageSize - 1) \div PageSize

\* A NextPage call of a paginator over n items fails.
PageFetchFails(n, failAt) == failAt \in 1..NumPages(n)

\* time.Time.Format(time.RFC3339): a string, not a time.Time.
FormatRFC3339(t) == <<"RFC3339", t>>

\* AssignRoleToUser with the existence guard of createItem on its PutItem.
Repo_AssignRoleToUser_Guarded(tbl, userID, roleID, t, fail) ==
    LET item == ("PK" :> UserPrefix \o userID)
                @@ ("SK" :> RolePrefix \o roleID)
                @@ ("EntityType" :> "UserRoleAssignment")
                @@ ("AssignedAt" :> FormatRFC3339(t))
    IN  IF fail \/ ~ConditionHolds(tbl, item)
        THEN [table |-> tbl,
              err |-> Wrap("failed to assign role to user", StoreErr)]
        ELSE [table |-> PutItem(tbl, item), err |-> Nil]

\* AssignRoleToUser that writes the edge under the sort key of the user's
\* metadata record.
Repo_AssignRoleToUser_MetadataKey(tbl, userID, roleID, t, fail) ==
    LET item == ("PK" :> UserPrefix \o userID)
                @@ ("SK" :> MetadataPrefix \o userID)
                @@ ("EntityType" :> "UserRoleAssignment")
                @@ ("AssignedAt" :> FormatRFC3339(t))
    IN  IF fail THEN [table |-> tbl,
                      err |-> Wrap("failed to assign role to user", StoreErr)]
        ELSE [table |-> PutItem(tbl, item), err |-> Nil]

\* DynamoDBUserRepository.AssignRoleToUser: an unconditional PutItem.
Repo_AssignRoleToUser(tbl, userID, roleID, t, fail) ==
    LET item == ("PK" :> UserPrefix \o userID)
                @@ ("SK" :> RolePrefix \o roleID)
                @@ ("EntityType" :> "UserRoleAssignment")
                @@ ("AssignedAt" :> FormatRFC3339(t))
    IN  IF fail THEN [table |-> tbl,
                      err |-> Wrap("failed to assign role to user", StoreErr)]
        ELSE [table |-> PutItem(tbl, item), err |-> Nil]

\* RemoveRoleFromUser with the key's two parts exchanged.
Repo_RemoveRoleFromUser_SwappedKey(tbl, userID, roleID, fail) ==
    IF fail THEN [table |-> tbl,
                  err |-> Wrap("failed to remove role from user", StoreErr)]
    ELSE [table |-> DeleteItem(tbl, RolePrefix \o roleID, UserPrefix \o userID),
          err |-> Nil]

\* RemoveRoleFromUser that deletes every edge record of the user.
Repo_RemoveRoleFromUser_AllOfUser(tbl, userID, roleID, fail) ==
    IF fail THEN [table |-> tbl,
                  err |-> Wrap("failed to remove role from user", StoreErr)]
    ELSE [table |-> [k \in {q \in DOMAIN tbl :
                               ~(/\ q[1] = UserPrefix \o userID
                                 /\ BeginsWith(q[2], RolePrefix))} |-> tbl[k]],
          err |-> Nil]

\* RemoveRoleFromUser that demands the edge record to exist.
Repo_RemoveRoleFromUser_MustExist(tbl, userID, roleID, fail) ==
    IF fail THEN [table |-> tbl,
                  err |-> Wrap("failed to remove role from user", StoreErr)]
    ELSE IF <<UserPrefix \o userID, RolePrefix \o roleID>> \notin DOMAIN tbl
    THEN [table |-> tbl, err |-> ErrNotFound]
    ELSE [table |-> DeleteItem(tbl, UserPrefix \o userID, RolePrefix \o roleID),
          err |-> Nil]

\* DynamoDBUserRepository.RemoveRoleFromUser: a DeleteItem.
Repo_RemoveRoleFromUser(tbl, userID, roleID, fail) ==
    IF fail THEN [table |-> tbl,
                  err |-> Wrap("failed to remove role from user", StoreErr)]
    ELSE [table |-> DeleteItem(tbl, UserPrefix \o userID, RolePrefix \o roleID),
          err |-> Nil]

RECURSIVE CollectRoles(_, _, _)
RECURSIVE CollectRoles_KeepsUnresolved(_, _, _)
\* The loop that keeps an edge whose role cannot be fetched, as a role with
\* the identifier of the edge and no other field.
CollectRoles_KeepsUnresolved(tbl, items, roleFail) ==
    IF items = << >> THEN << >>
    ELSE LET roleIDStr == StripPrefix(Attr(Head(items), "SK"), RolePrefix)
             r == Repo_GetRoleByID(tbl, roleIDStr, roleIDStr \in roleFail)
         IN  (IF r.err # Nil THEN <<[NoEntity EXCEPT !.ID = roleIDStr]>>
              ELSE <<r.role>>)
                 \o CollectRoles_KeepsUnresolved(tbl, Tail(items), roleFail)

\* The loop over the items of the pages: the role of each edge is fetched
\* with GetRoleByID and an edge whose fetch fails is skipped.  `roleFail`
\* holds the role identifiers whose GetItem fails in the store.
CollectRoles(tbl, items, roleFail) ==
    IF items = << >> THEN << >>
    ELSE LET roleIDStr == StripPrefix(Attr(Head(items), "SK"), RolePrefix)
             r == Repo_GetRoleByID(tbl, roleIDStr, roleIDStr \in roleFail)
         IN  (IF r.err # Nil THEN << >> ELSE <<r.role>>)
                 \o CollectRoles(tbl, Tail(items), roleFail)

\* DynamoDBUserRepository.GetUserRoles.  `failAt` is the page whose fetch
\* fails (0: none).
Repo_GetUserRoles(tbl, userID, failAt, roleFail) ==
    LET items == Query(tbl, UserPrefix \o userID, RolePrefix)
    IN  IF PageFetchFails(Len(items), failAt)
        THEN [roles |-> << >>,
              err |-> Wrap("failed to query user roles", StoreErr)]
        ELSE [roles |-> CollectRoles(tbl, items, roleFail), err |-> Nil]

(***************************************************************************)
(* Queries on the indexes (user repository).                               *)
(***************************************************************************)
RECURSIVE SortByPK(_, _)
\* The items of `avs` in ascending order of partition key (all carry `prefix`).
SortByPK(avs, prefix) ==
    IF avs = {} THEN << >>
    ELSE LET first == CHOOSE x \in avs : \A y \in avs :
                          Rank(StripPrefix(x["PK"], prefix))
                              <= Rank(StripPrefix(y["PK"], prefix))
         IN  <<first>> \o SortByPK(avs \ {first}, prefix)

\* Query on index GSI1 (partition key SK, sort key PK):
\* SK = sk AND begins_with(PK, pkPrefix), in key order.
QueryGSI1(tbl, sk, pkPrefix) ==
    SortByPK({tbl[k] : k \in {q \in DOMAIN tbl :
                 q[2] = sk /\ BeginsWith(q[1], pkPrefix)}}, pkPrefix)

RECURSIVE CollectUsers(_, _, _)
\* The loop over the items of the pages: the user of each item, named by
\* `idOf`, is fetched with GetUserByID and an item whose fetch fails is
\* skipped.  `userFail` holds the identifiers whose GetItem fails.
CollectUsers(tbl, ids, userFail) ==
    IF ids = << >> THEN << >>
    ELSE LET u == Repo_GetUserByID(tbl, Head(ids), Head(ids) \in userFail)
         IN  (IF u.err # Nil THEN << >> ELSE <<u.user>>)
                 \o CollectUsers(tbl, Tail(ids), userFail)

\* ListUsersInRole returning what the pages before the failed one gave.
Repo_ListUsersInRole_PartialOnFailure(tbl, roleID, failAt, userFail) ==
    LET items == QueryGSI1(tbl, RolePrefix \o roleID, UserPrefix)
        ids == [i \in 1..Len(items) |-> StripPrefix(Attr(items[i], "PK"), UserPrefix)]
    IN  IF PageFetchFails(Len(items), failAt)
        THEN [users |-> CollectUsers(tbl, SubSeq(ids, 1, (failAt - 1) * PageSize),
                                     userFail),
              err |-> Nil]
        ELSE [users |-> CollectUsers(tbl, ids, userFail), err |-> Nil]

\* DynamoDBUserRepository.ListUsersInRole.  `failAt` is the page whose fetch
\* fails (0: none).
Repo_ListUsersInRole(tbl, roleID, failAt, userFail) ==
    LET items == QueryGSI1(tbl, RolePrefix \o roleID, UserPrefix)
        ids == [i \in 1..Len(items) |-> StripPrefix(Attr(items[i], "PK"), UserPrefix)]
    IN  IF PageFetchFails(Len(items), failAt)
        THEN [users |-> << >>,
              err |-> Wrap("failed to query users in role using GSI1", StoreErr)]
        ELSE [users |-> CollectUsers(tbl, ids, userFail), err |-> Nil]

\* The keys of the items in index EntityTypeIndex (partition key EntityType,
\* sort key EntityID) under one entity type.
EntityTypeIndexKeys(tbl, entityType) ==
    {k \in DOMAIN tbl :
        /\ "EntityType" \in DOMAIN tbl[k]
        /\ "EntityID" \in DOMAIN tbl[k]
        /\ tbl[k]["EntityType"] = entityType}

RECURSIVE SortByEntityID(_, _)
\* The EntityID of the items under `keys` in ascending order; items with the
\* same EntityID give the same identifier once each.
SortByEntityID(tbl, keys) ==
    IF keys = {} THEN << >>
    ELSE LET first == CHOOSE x \in keys : \A y \in keys :
                          Rank(tbl[x]["EntityID"]) <= Rank(tbl[y]["EntityID"])
         IN  <<tbl[first]["EntityID"]>> \o SortByEntityID(tbl, keys \ {first})

\* DynamoDBUserRepository.ListAllUsers: the items of the index under
\* EntityType "USER", each resolved with GetUserByID on its EntityID.
Repo_ListAllUsers(tbl, failAt, userFail) ==
    LET ids == SortByEntityID(tbl, EntityTypeIndexKeys(tbl, EntityTypeUser))
    IN  IF PageFetchFails(Len(ids), failAt)
        THEN [users |-> << >>,
              err |-> Wrap("failed to query user roles", StoreErr)]
        ELSE [users |-> CollectUsers(tbl, ids, userFail), err |-> Nil]

(***************************************************************************)
(* The service (rbac_service.go).                                          *)
(***************************************************************************)
Range(seq) == {seq[i] : i \in 1..Len(seq)}

\* CreateUser that derives the identity from the display name.
Service_CreateUser_IDFromName(tbl, displayName, email, t, fail) ==
    LET user == [ID |-> "user-" \o displayName, DisplayName |-> displayName,
                 Email |-> email, CreatedAt |-> ZeroTime, UpdatedAt |-> ZeroTime]
        r == Repo_CreateUser(tbl, user, t, fail)
    IN  IF r.err # Nil
        THEN [table |-> r.table, user |-> NoUser,
              err |-> Wrap("service.CreateUser", r.err)]
        ELSE [table |-> r.table, user |-> r.user, err |-> Nil]

\* rbacServiceImpl.CreateUser
Service_CreateUser(tbl, displayName, email, t, fail) ==
    LET user == [ID |-> "user-" \o email, DisplayName |-> displayName,
                 Email |-> email, CreatedAt |-> ZeroTime, UpdatedAt |-> ZeroTime]
        r == Repo_CreateUser(tbl, user, t, fail)
    IN  IF r.err # Nil
        THEN [table |-> r.table, user |-> NoUser,
              err |-> Wrap("service.CreateUser", r.err)]
        ELSE [table |-> r.table, user |-> r.user, err |-> Nil]

\* rbacServiceImpl.GetUser
Service_GetUser(tbl, userID, fail) ==
    LET r == Repo_GetUserByID(tbl, userID, fail)
    IN  IF r.err # Nil
        THEN [user |-> NoUser, err |-> Wrap("service.GetUser", r.err)]
        ELSE [user |-> r.user, err |-> Nil]

\* AssignRoleToUser that looks the role up before the user.
Service_AssignRoleToUser_RoleFirst(tbl, userID, roleID, t, fails) ==
    LET u == Repo_GetUserByID(tbl, userID, "user" \in fails)
        r == Repo_GetRoleByID(tbl, roleID, "role" \in fails)
        a == Repo_AssignRoleToUser(tbl, userID, roleID, t, "put" \in fails)
    IN  IF r.err # Nil
        THEN [table |-> tbl,
              err |-> Wrap("service.AssignRoleToUser: role not found", r.err)]
        ELSE IF u.err # Nil
        THEN [table |-> tbl,
              err |-> Wrap("service.AssignRoleToUser: user not found", u.err)]
        ELSE IF a.err # Nil
        THEN [table |-> a.table, err |-> Wrap("service.AssignRoleToUser", a.err)]
        ELSE [table |-> a.table, err |-> Nil]

\* AssignRoleToUser that writes the edge before it looks up the user and
\* the role.
Service_AssignRoleToUser_PutFirst(tbl, userID, roleID, t, fails) ==
    LET a == Repo_AssignRoleToUser(tbl, userID, roleID, t, "put" \in fails)
        u == Repo_GetUserByID(a.table, userID, "user" \in fails)
        r == Repo_GetRoleByID(a.table, roleID, "role" \in fails)
    IN  IF u.err # Nil
        THEN [table |-> a.table,
              err |-> Wrap("service.AssignRoleToUser: user not found", u.err)]
        ELSE IF r.err # Nil
        THEN [table |-> a.table,
              err |-> Wrap("service.AssignRoleToUser: role not found", r.err)]
        ELSE IF a.err # Nil
        THEN [table |-> a.table, err |-> Wrap("service.AssignRoleToUser", a.err)]
        ELSE [table |-> a.table, err |-> Nil]

\* rbacServiceImpl.AssignRoleToUser.  `fails` names the store calls that fail.
Service_AssignRoleToUser(tbl, userID, roleID, t, fails) ==
    LET u == Repo_GetUserByID(tbl, userID, "user" \in fails)
        r == Repo_GetRoleByID(tbl, roleID, "role" \in fails)
        a == Repo_AssignRoleToUser(tbl, userID, roleID, t, "put" \in fails)
    IN  IF u.err # Nil
        THEN [table |-> tbl,
              err |-> Wrap("service.AssignRoleToUser: user not found", u.err)]
        ELSE IF r.err # Nil
        THEN [table |-> tbl,
              err |-> Wrap("service.AssignRoleToUser: role not found", r.err)]
        ELSE IF a.err # Nil
        THEN [table |-> a.table, err |-> Wrap("service.AssignRoleToUser", a.err)]
        ELSE [table |-> a.table, err |-> Nil]

\* rbacServiceImpl.RemoveRoleFromUser
Service_RemoveRoleFromUser(tbl, userID, roleID, fail) ==
    LET r == Repo_RemoveRoleFromUser(tbl, userID, roleID, fail)
    IN  IF r.err # Nil
        THEN [table |-> r.table, err |-> Wrap("service.RemoveRoleFromUser", r.err)]
        ELSE [table |-> r.table, err |-> Nil]

\* rbacServiceImpl.GetUserRoles
Service_GetUserRoles(tbl, userID, failAt, roleFail) ==
    LET r == Repo_GetUserRoles(tbl, userID, failAt, roleFail)
    IN  IF r.err # Nil
        THEN [roles |-> << >>, err |-> Wrap("service.GetUserRoles", r.err)]
        ELSE [roles |-> r.roles, err |-> Nil]

\* rbacServiceImpl.CreateRole
Service_CreateRole(tbl, displayName, description, t, fail) ==
    LET role == [ID |-> "role-" \o displayName, DisplayName |-> displayName,
                 Description |-> description,
                 CreatedAt |-> ZeroTime, UpdatedAt |-> ZeroTime]
        r == Repo_CreateRole(tbl, role, t, fail)
    IN  IF r.err # Nil
        THEN [table |-> r.table, role |-> NoEntity,
              err |-> Wrap("service.CreateRole", r.err)]
        ELSE [table |-> r.table, role |-> r.role, err |-> Nil]

\* rbacServiceImpl.AssignPermissionToRole
Service_AssignPermissionToRole(tbl, roleID, permissionID, fails) ==
    LET r == Repo_GetRoleByID(tbl, roleID, "role" \in fails)
        p == Repo_GetPermissionByID(tbl, permissionID, "permission" \in fails)
        a == Repo_AssignPermissionToRole(tbl, roleID, permissionID)
    IN  IF r.err # Nil
        THEN [table |-> tbl,
              err |-> Wrap("service.AssignPermissionToRole: role not found", r.err)]
        ELSE IF p.err # Nil
        THEN [table |-> tbl,
              err |-> Wrap("service.AssignPermissionToRole: permission not found",
                           p.err)]
        ELSE IF a.err # Nil
        THEN [table |-> a.table,
              err |-> Wrap("service.AssignPermissionToRole", a.err)]
        ELSE [table |-> a.table, err |-> Nil]

\* rbacServiceImpl.CreatePermission
Service_CreatePermission(tbl, id, displayName, description, t, fail) ==
    LET permission == [ID |-> id, DisplayName |-> displayName,
                       Description |-> description,
                       CreatedAt |-> ZeroTime, UpdatedAt |-> ZeroTime]
        r == Repo_CreatePermission(tbl, permission, t, fail)
    IN  IF r.err # Nil
        THEN [table |-> r.table, permission |-> NoEntity,
              err |-> Wrap("service.CreatePermission", r.err)]
        ELSE [table |-> r.table, permission |-> r.permission, err |-> Nil]

\* rbacServiceImpl.GetAllPermissions
Service_GetAllPermissions(tbl) == Repo_ListAllPermissions(tbl)

\* rbacServiceImpl.GetAllRoles
Service_GetAllRoles(tbl) == Repo_ListAllRoles(tbl)

\* The permission identifiers collected by the loop over the roles: a role
\* whose GetRolePermissions fails is skipped.
UserPermissions(tbl, roles) ==
    UNION {LET ps == Repo_GetRolePermissions(tbl, roles[i].ID)
           IN  IF ps.err # Nil THEN {}
               ELSE {ps.permissions[j].ID : j \in 1..Len(ps.permissions)}
           : i \in 1..Len(roles)}

\* UserHasPermission granting when the roles of the user cannot be read.
Service_UserHasPermission_FailOpen(tbl, userID, targetPermissionID, failAt, roleFail) ==
    LET r == Repo_GetUserRoles(tbl, userID, failAt, roleFail)
    IN  IF r.err # Nil
        THEN [ok |-> TRUE,
              err |-> Wrap("service.UserHasPermission: failed to get user roles",
                           r.err)]
        ELSE IF Len(r.roles) = 0 THEN [ok |-> FALSE, err |-> Nil]
        ELSE [ok |-> targetPermissionID \in UserPermissions(tbl, r.roles),
              err |-> Nil]

\* UserHasPermission reporting a user without roles as an error.
Service_UserHasPermission_NoRolesIsError(tbl, userID, targetPermissionID, failAt, roleFail) ==
    LET r == Repo_GetUserRoles(tbl, userID, failAt, roleFail)
    IN  IF r.err # Nil
        THEN [ok |-> FALSE,
              err |-> Wrap("service.UserHasPermission: failed to get user roles",
                           r.err)]
        ELSE IF Len(r.roles) = 0
        THEN [ok |-> FALSE,
              err |-> Wrap("service.UserHasPermission: failed to get user roles",
                           ErrNotFound)]
        ELSE [ok |-> targetPermissionID \in UserPermissions(tbl, r.roles),
              err |-> Nil]

\* rbacServiceImpl.UserHasPermission
Service_UserHasPermission(tbl, userID, targetPermissionID, failAt, roleFail) ==
    LET r == Repo_GetUserRoles(tbl, userID, failAt, roleFail)
    IN  IF r.err # Nil
        THEN IF ErrorsIs(r.err, ErrNotFound)
             THEN [ok |-> FALSE, err |-> Nil]
             ELSE [ok |-> FALSE,
                   err |-> Wrap("service.UserHasPermission: failed to get user roles",
                                r.err)]
        ELSE IF Len(r.roles) = 0 THEN [ok |-> FALSE, err |-> Nil]
        ELSE [ok |-> targetPermissionID \in UserPermissions(tbl, r.roles),
              err |-> Nil]

\* The store calls that GetUserRoles makes over n items, in order: the fetch
\* of page j, then one GetRoleByID for each item of page j.  The position
\* of the fetch of page j and of the GetRoleByID of item i in that order.
PagePos(j) == (j - 1) * (PageSize + 1) + 1
ItemPos(i) == ((i + PageSize - 1) \div PageSize) + i

\* The number of store calls of UserHasPermission over n edge records;
\* the loop over the resolved roles makes none (GetRolePermissions).
NumStoreCalls(n) == NumPages(n) + n

\* A context cancelled before store call k: call k and every later store
\* call of the handler fail.  The first page fetch that fails (0: none) ...
CancelFailAt(n, k) ==
    LET late == {j \in 1..NumPages(n) : PagePos(j) >= k}
    IN  IF late = {} THEN 0 ELSE CHOOSE j \in late : \A q \in late : j <= q

\* ... and the roles whose GetRoleByID fails.
CancelRoleFail(items, k) ==
    {StripPrefix(Attr(items[i], "SK"), RolePrefix) :
        i \in {q \in 1..Len(items) : ItemPos(q) >= k}}

\* rbacServiceImpl.UserHasPermission with ctx cancelled before store call k.
Service_UserHasPermission_Cancelled(tbl, userID, targetPermissionID, k) ==
    LET items == Query(tbl, UserPrefix \o userID, RolePrefix)
    IN  Service_UserHasPermission(tbl, userID, targetPermissionID,
                                  CancelFailAt(Len(items), k),
                                  CancelRoleFail(items, k))

(***************************************************************************)
(* The callers.  One caller issues one call at a time: a call runs its     *)
(* handler (every store call in it) and leaves what it was given and what  *)
(* it returned in `ret`; Return is the caller taking the result.  `pre` is *)
(* the table the call found.                                               *)
(***************************************************************************)
Idle == [op |-> "idle"]

\* The callers that run concurrently.
Callers == {"c1", "c2"}

\* An entity of the kind with this identity has been created.
Created(kind, id) == \E c \in created : c.kind = kind /\ c.entity.ID = id

\* What time.Now() can return: the clock may have advanced since the last call.
ClockReadings == {t \in {now, now + 1} : t <= MaxTime}

\* CreatedAt/UpdatedAt values a caller may leave in the entity it passes.
CallerTimes == {ZeroTime, MaxTime + 1}

Call_Repo_CreateUser(ids, names, emails) ==
    /\ UNCHANGED proc
    /\ ret = Idle
    /\ UNCHANGED calls
    /\ \E id \in ids, n \in names, e \in emails, c \in CallerTimes,
          t \in ClockReadings, f \in BOOLEAN :
          LET user == [ID |-> id, DisplayName |-> n, Email |-> e,
                       CreatedAt |-> c, UpdatedAt |-> c]
              r == Repo_CreateUser(table, user, t, f)
          IN  /\ table' = r.table
              /\ now' = t
              /\ ret' = [op |-> "Repo.CreateUser", kind |-> "user", in |-> user,
                         t |-> t, out |-> r.user, err |-> r.err, failed |-> f, pre |-> table,
                         existed |-> Created("user", id)]
              /\ created' = IF r.err = Nil
                             THEN created \cup {[kind |-> "user", entity |-> r.user]}
                             ELSE created
    /\ UNCHANGED granted

Call_Repo_CreateRole(ids, names, descriptions) ==
    /\ UNCHANGED proc
    /\ ret = Idle
    /\ UNCHANGED calls
    /\ \E id \in ids, n \in names, d \in descriptions, c \in CallerTimes,
          t \in ClockReadings, f \in BOOLEAN :
          LET role == [ID |-> id, DisplayName |-> n, Description |-> d,
                       CreatedAt |-> c, UpdatedAt |-> c]
              r == Repo_CreateRole(table, role, t, f)
          IN  /\ table' = r.table
              /\ now' = t
              /\ ret' = [op |-> "Repo.CreateRole", kind |-> "role", in |-> role,
                         t |-> t, out |-> r.role, err |-> r.err, failed |-> f, pre |-> table,
                         existed |-> Created("role", id)]
              /\ created' = IF r.err = Nil
                             THEN created \cup {[kind |-> "role", entity |-> r.role]}
                             ELSE created
    /\ UNCHANGED granted

Call_Repo_CreatePermission(ids, names, descriptions) ==
    /\ UNCHANGED proc
    /\ ret = Idle
    /\ UNCHANGED calls
    /\ \E id \in ids, n \in names, d \in descriptions, c \in CallerTimes,
          t \in ClockReadings, f \in BOOLEAN :
          LET permission == [ID |-> id, DisplayName |-> n, Description |-> d,
                             CreatedAt |-> c, UpdatedAt |-> c]
              r == Repo_CreatePermission(table, permission, t, f)
          IN  /\ table' = r.table
              /\ now' = t
              /\ ret' = [op |-> "Repo.CreatePermission", kind |-> "permission",
                         in |-> permission, t |-> t, out |-> r.permission,
                         err |-> r.err, failed |-> f, pre |-> table,
                         existed |-> Created("permission", id)]
              /\ created' = IF r.err = Nil
                             THEN created \cup {[kind |-> "permission", entity |-> r.permission]}
                             ELSE created
    /\ UNCHANGED granted

Call_Repo_GetUserByID(ids) ==
    /\ UNCHANGED proc
    /\ ret = Idle
    /\ UNCHANGED calls
    /\ \E id \in ids, f \in BOOLEAN :
          LET r == Repo_GetUserByID(table, id, f)
          IN  ret' = [op |-> "Repo.GetUserByID", kind |-> "user", id |-> id,
                      out |-> r.user, err |-> r.err, failed |-> f, pre |-> table]
    /\ UNCHANGED <<table, now, created, granted>>

Call_Repo_GetRoleByID(ids) ==
    /\ UNCHANGED proc
    /\ ret = Idle
    /\ UNCHANGED calls
    /\ \E id \in ids, f \in BOOLEAN :
          LET r == Repo_GetRoleByID(table, id, f)
          IN  ret' = [op |-> "Repo.GetRoleByID", kind |-> "role", id |-> id,
                      out |-> r.role, err |-> r.err, failed |-> f, pre |-> table]
    /\ UNCHANGED <<table, now, created, granted>>

Call_Repo_GetPermissionByID(ids) ==
    /\ UNCHANGED proc
    /\ ret = Idle
    /\ UNCHANGED calls
    /\ \E id \in ids, f \in BOOLEAN :
          LET r == Repo_GetPermissionByID(table, id, f)
          IN  ret' = [op |-> "Repo.GetPermissionByID", kind |-> "permission",
                      id |-> id, out |-> r.permission, err |-> r.err,
                      failed |-> f, pre |-> table]
    /\ UNCHANGED <<table, now, created, granted>>

Call_Service_CreateUser(names, emails) ==
    /\ UNCHANGED proc
    /\ ret = Idle
    /\ UNCHANGED calls
    /\ \E n \in names, e \in emails, t \in ClockReadings, f \in BOOLEAN :
          LET r == Service_CreateUser(table, n, e, t, f)
          IN  /\ table' = r.table
              /\ now' = t
              /\ ret' = [op |-> "Service.CreateUser", kind |-> "user",
                         in |-> [ID |-> "user-" \o e, DisplayName |-> n,
                                 Email |-> e],
                         t |-> t, out |-> r.user, err |-> r.err, failed |-> f, pre |-> table,
                         existed |-> Created("user", "user-" \o e)]
              /\ created' = IF r.err = Nil
                             THEN created \cup {[kind |-> "user", entity |-> r.user]}
                             ELSE created
    /\ UNCHANGED granted

Call_Service_CreateRole(names, descriptions) ==
    /\ UNCHANGED proc
    /\ ret = Idle
    /\ UNCHANGED calls
    /\ \E n \in names, d \in descriptions, t \in ClockReadings, f \in BOOLEAN :
          LET r == Service_CreateRole(table, n, d, t, f)
          IN  /\ table' = r.table
              /\ now' = t
              /\ ret' = [op |-> "Service.CreateRole", kind |-> "role",
                         in |-> [ID |-> "role-" \o n, DisplayName |-> n,
                                 Description |-> d],
                         t |-> t, out |-> r.role, err |-> r.err, failed |-> f, pre |-> table,
                         existed |-> Created("role", "role-" \o n)]
              /\ created' = IF r.err = Nil
                             THEN created \cup {[kind |-> "role", entity |-> r.role]}
                             ELSE created
    /\ UNCHANGED granted

Call_Service_CreatePermission(ids, names, descriptions) ==
    /\ UNCHANGED proc
    /\ ret = Idle
    /\ UNCHANGED calls
    /\ \E id \in ids, n \in names, d \in descriptions,
          t \in ClockReadings, f \in BOOLEAN :
          LET r == Service_CreatePermission(table, id, n, d, t, f)
          IN  /\ table' = r.table
              /\ now' = t
              /\ ret' = [op |-> "Service.CreatePermission", kind |-> "permission",
                         in |-> [ID |-> id, DisplayName |-> n, Description |-> d],
                         t |-> t, out |-> r.permission, err |-> r.err,
                         failed |-> f, pre |-> table,
                         existed |-> Created("permission", id)]
              /\ created' = IF r.err = Nil
                             THEN created \cup {[kind |-> "permission", entity |-> r.permission]}
                             ELSE created
    /\ UNCHANGED granted

Call_Service_GetUser(ids) ==
    /\ UNCHANGED proc
    /\ ret = Idle
    /\ UNCHANGED calls
    /\ \E id \in ids, f \in BOOLEAN :
          LET r == Service_GetUser(table, id, f)
          IN  ret' = [op |-> "Service.GetUser", kind |-> "user", id |-> id,
                      out |-> r.user, err |-> r.err, failed |-> f, pre |-> table]
    /\ UNCHANGED <<table, now, created, granted>>

\* The process when main has made the done channel (main.go:67) and is about
\* to start the gracefulShutdown goroutine.
ProcStart ==
    [main |-> "go", shut |-> "notStarted", registered |-> FALSE,
     ctxDone |-> FALSE, sig |-> "none", server |-> "new", active |-> 0,
     err |-> "nil", shutdownErr |-> FALSE, done |-> << >>, sends |-> 0]

\* The caller takes the result; it may then issue its next call.
Return ==
    /\ UNCHANGED proc
    /\ ret # Idle
    /\ ret' = Idle
    /\ UNCHANGED <<table, now, created, granted, calls>>

Init ==
    /\ table = EmptyMap
    /\ now = 1
    /\ created = {}
    /\ granted = {}
    /\ ret = Idle
    /\ calls = [c \in Callers |-> Idle]
    /\ proc = ProcStart

(***************************************************************************)
(* Spec: the entity store.  Users, roles and permissions are created and   *)
(* fetched through the repositories and through the service.               *)
(***************************************************************************)
Names == {"n1", "n2"}
Descriptions == {"", "d"}

Next ==
    \/ Call_Repo_CreateUser({"a"}, Names, {"e1"})
    \/ Call_Repo_CreateRole({"a"}, Names, Descriptions)
    \/ Call_Repo_CreatePermission({"a"}, Names, Descriptions)
    \/ Call_Repo_GetUserByID({"a", "user-e1"})
    \/ Call_Repo_GetRoleByID({"a", "role-n1"})
    \/ Call_Repo_GetPermissionByID({"a", "b"})
    \/ Call_Service_CreateUser(Names, {"e1"})
    \/ Call_Service_CreateRole({"n1"}, Descriptions)
    \/ Call_Service_CreatePermission({"a", "b"}, {"n1"}, Descriptions)
    \/ Call_Service_GetUser({"a", "user-e1"})
    \/ Return

Spec == Init /\ [][Next]_vars

(***************************************************************************)
(* Calls on the edges and on the resolver.                                 *)
(***************************************************************************)
\* The store calls of a handler that may fail, by name.
FailSets(names) == SUBSET names

\* The page of a query whose fetch fails: 0 for none.
FailPages(roleIDs) == 0..Cardinality(roleIDs)

Call_Repo_AssignRoleToUser(userIDs, roleIDs) ==
    /\ UNCHANGED proc
    /\ ret = Idle
    /\ UNCHANGED calls
    /\ \E u \in userIDs, r \in roleIDs, t \in ClockReadings, f \in BOOLEAN :
          LET a == Repo_AssignRoleToUser(table, u, r, t, f)
          IN  /\ table' = a.table
              /\ now' = t
              /\ ret' = [op |-> "Repo.AssignRoleToUser", u |-> u, r |-> r,
                         t |-> t, err |-> a.err,
                         fails |-> IF f THEN {"put"} ELSE {}, pre |-> table]
    /\ UNCHANGED <<created, granted>>

Call_Repo_RemoveRoleFromUser(userIDs, roleIDs) ==
    /\ UNCHANGED proc
    /\ ret = Idle
    /\ UNCHANGED calls
    /\ \E u \in userIDs, r \in roleIDs, f \in BOOLEAN :
          LET d == Repo_RemoveRoleFromUser(table, u, r, f)
          IN  /\ table' = d.table
              /\ ret' = [op |-> "Repo.RemoveRoleFromUser", u |-> u, r |-> r,
                         err |-> d.err, failed |-> f, pre |-> table]
    /\ UNCHANGED <<now, created, granted>>

Call_Repo_GetUserRoles(userIDs, roleIDs) ==
    /\ UNCHANGED proc
    /\ ret = Idle
    /\ UNCHANGED calls
    /\ \E u \in userIDs, failAt \in FailPages(roleIDs), roleFail \in SUBSET roleIDs :
          LET g == Repo_GetUserRoles(table, u, failAt, roleFail)
          IN  ret' = [op |-> "Repo.GetUserRoles", u |-> u, failAt |-> failAt,
                      roleFail |-> roleFail, roles |-> g.roles, err |-> g.err,
                      pre |-> table]
    /\ UNCHANGED <<table, now, created, granted>>

Call_Repo_AssignPermissionToRole(roleIDs, permissionIDs) ==
    /\ UNCHANGED proc
    /\ ret = Idle
    /\ UNCHANGED calls
    /\ \E r \in roleIDs, p \in permissionIDs :
          LET a == Repo_AssignPermissionToRole(table, r, p)
          IN  /\ table' = a.table
              /\ granted' = IF a.err = Nil THEN granted \cup {<<r, p>>} ELSE granted
              /\ ret' = [op |-> "Repo.AssignPermissionToRole", r |-> r, p |-> p,
                         err |-> a.err, pre |-> table]
    /\ UNCHANGED <<now, created>>

Call_Service_AssignRoleToUser(userIDs, roleIDs) ==
    /\ UNCHANGED proc
    /\ ret = Idle
    /\ UNCHANGED calls
    /\ \E u \in userIDs, r \in roleIDs, t \in ClockReadings,
          fails \in FailSets({"user", "role", "put"}) :
          LET a == Service_AssignRoleToUser(table, u, r, t, fails)
          IN  /\ table' = a.table
              /\ now' = t
              /\ ret' = [op |-> "Service.AssignRoleToUser", u |-> u, r |-> r,
                         t |-> t, err |-> a.err, fails |-> fails, pre |-> table]
    /\ UNCHANGED <<created, granted>>

Call_Service_RemoveRoleFromUser(userIDs, roleIDs) ==
    /\ UNCHANGED proc
    /\ ret = Idle
    /\ UNCHANGED calls
    /\ \E u \in userIDs, r \in roleIDs, f \in BOOLEAN :
          LET d == Service_RemoveRoleFromUser(table, u, r, f)
          IN  /\ table' = d.table
              /\ ret' = [op |-> "Service.RemoveRoleFromUser", u |-> u, r |-> r,
                         err |-> d.err, failed |-> f, pre |-> table]
    /\ UNCHANGED <<now, created, granted>>

Call_Service_GetUserRoles(userIDs, roleIDs) ==
    /\ UNCHANGED proc
    /\ ret = Idle
    /\ UNCHANGED calls
    /\ \E u \in userIDs, failAt \in FailPages(roleIDs), roleFail \in SUBSET roleIDs :
          LET g == Service_GetUserRoles(table, u, failAt, roleFail)
          IN  ret' = [op |-> "Service.GetUserRoles", u |-> u, failAt |-> failAt,
                      roleFail |-> roleFail, roles |-> g.roles, err |-> g.err,
                      pre |-> table]
    /\ UNCHANGED <<table, now, created, granted>>

Call_Service_AssignPermissionToRole(roleIDs, permissionIDs) ==
    /\ UNCHANGED proc
    /\ ret = Idle
    /\ UNCHANGED calls
    /\ \E r \in roleIDs, p \in permissionIDs,
          fails \in FailSets({"role", "permission"}) :
          LET a == Service_AssignPermissionToRole(table, r, p, fails)
          IN  /\ table' = a.table
              /\ granted' = IF a.err = Nil THEN granted \cup {<<r, p>>} ELSE granted
              /\ ret' = [op |-> "Service.AssignPermissionToRole", r |-> r, p |-> p,
                         err |-> a.err, fails |-> fails, pre |-> table]
    /\ UNCHANGED <<now, created>>

Call_Service_UserHasPermission(userIDs, roleIDs, permissionIDs) ==
    /\ UNCHANGED proc
    /\ ret = Idle
    /\ UNCHANGED calls
    /\ \E u \in userIDs, p \in permissionIDs, failAt \in FailPages(roleIDs),
          roleFail \in SUBSET roleIDs :
          LET h == Service_UserHasPermission(table, u, p, failAt, roleFail)
          IN  ret' = [op |-> "Service.UserHasPermission", u |-> u, p |-> p,
                      failAt |-> failAt, roleFail |-> roleFail, cancelAt |-> 0,
                      ok |-> h.ok, err |-> h.err, pre |-> table]
    /\ UNCHANGED <<table, now, created, granted>>

\* A UserHasPermission call whose context is cancelled while it runs:
\* before one of its store calls or, when roles were found, in the loop
\* over the roles.
Call_Service_UserHasPermission_Cancelled(userIDs, permissionIDs) ==
    /\ UNCHANGED proc
    /\ ret = Idle
    /\ UNCHANGED calls
    /\ \E u \in userIDs, p \in permissionIDs :
          LET items == Query(table, UserPrefix \o u, RolePrefix)
              n == Len(items)
              last == IF n > 0 THEN NumStoreCalls(n) + 1 ELSE NumStoreCalls(n)
          IN  \E k \in 1..last :
                 LET h == Service_UserHasPermission_Cancelled(table, u, p, k)
                 IN  ret' = [op |-> "Service.UserHasPermission", u |-> u, p |-> p,
                             failAt |-> CancelFailAt(n, k),
                             roleFail |-> CancelRoleFail(items, k),
                             cancelAt |-> k,
                             ok |-> h.ok, err |-> h.err, pre |-> table]
    /\ UNCHANGED <<table, now, created, granted>>

(***************************************************************************)
(* SpecRel: the relation store and the resolver.  Entities carry one name  *)
(* and one description; users are given roles, roles are given             *)
(* permissions, and the permissions of users are resolved.                 *)
(***************************************************************************)
UserIDs == {"a"}
RoleIDs == {"a", "b"}
PermissionIDs == {"b", "c"}

NextRel ==
    \/ Call_Repo_CreateUser(UserIDs, {"n1"}, {"e1"})
    \/ Call_Repo_CreateRole(RoleIDs, {"n1"}, {"d"})
    \/ Call_Repo_CreatePermission(PermissionIDs, {"n1"}, {"d"})
    \/ Call_Repo_AssignRoleToUser(UserIDs, RoleIDs)
    \/ Call_Repo_RemoveRoleFromUser(UserIDs, RoleIDs)
    \/ Call_Repo_GetUserRoles(UserIDs, RoleIDs)
    \/ Call_Repo_AssignPermissionToRole(RoleIDs, {"c"})
    \/ Call_Service_AssignRoleToUser(UserIDs, RoleIDs)
    \/ Call_Service_RemoveRoleFromUser(UserIDs, RoleIDs)
    \/ Call_Service_GetUserRoles(UserIDs, RoleIDs)
    \/ Call_Service_AssignPermissionToRole(RoleIDs, {"c"})
    \/ Call_Service_UserHasPermission(UserIDs, RoleIDs, PermissionIDs)
    \/ Call_Service_UserHasPermission_Cancelled(UserIDs, PermissionIDs)
    \/ Return

SpecRel == Init /\ [][NextRel]_vars

(***************************************************************************)
(* SpecList: the paginated traversals of the user repository over two      *)
(* users and their roles.                                                  *)
(***************************************************************************)
Call_Repo_ListUsersInRole(roleIDs, userIDs) ==
    /\ UNCHANGED proc
    /\ ret = Idle
    /\ UNCHANGED calls
    /\ \E r \in roleIDs, failAt \in 0..Cardinality(userIDs),
          userFail \in SUBSET userIDs :
          LET l == Repo_ListUsersInRole(table, r, failAt, userFail)
          IN  ret' = [op |-> "Repo.ListUsersInRole", r |-> r, failAt |-> failAt,
                      userFail |-> userFail, users |-> l.users, err |-> l.err,
                      pre |-> table]
    /\ UNCHANGED <<table, now, created, granted>>

Call_Repo_ListAllUsers(ids) ==
    /\ UNCHANGED proc
    /\ ret = Idle
    /\ UNCHANGED calls
    /\ \E failAt \in 0..Cardinality(EntityTypeIndexKeys(table, EntityTypeUser)),
          userFail \in SUBSET ids :
          LET l == Repo_ListAllUsers(table, failAt, userFail)
          IN  ret' = [op |-> "Repo.ListAllUsers", failAt |-> failAt,
                      userFail |-> userFail, users |-> l.users, err |-> l.err,
                      pre |-> table]
    /\ UNCHANGED <<table, now, created, granted>>

ListUserIDs == {"a", "b"}
ListRoleIDs == {"a", "b"}

NextList ==
    \/ Call_Repo_CreateUser(ListUserIDs, {"n1"}, {"e1"})
    \/ Call_Repo_CreateRole(ListRoleIDs, {"n1"}, {"d"})
    \/ Call_Repo_AssignRoleToUser(ListUserIDs, ListRoleIDs)
    \/ Call_Repo_RemoveRoleFromUser(ListUserIDs, ListRoleIDs)
    \/ Call_Repo_GetUserRoles(ListUserIDs, ListRoleIDs)
    \/ Call_Repo_ListUsersInRole(ListRoleIDs, ListUserIDs)
    \/ Call_Repo_ListAllUsers(ListUserIDs)
    \/ Return

SpecList == Init /\ [][NextList]_vars

(***************************************************************************)
(* SpecIds: the repository called with identifiers that are empty or hold  *)
(* the separator of the keys.                                              *)
(***************************************************************************)
IdUserIDs == {"", "a#b"}
IdRoleIDs == {"a#b"}

NextIds ==
    \/ Call_Repo_CreateUser(IdUserIDs, {"n1"}, {"e1"})
    \/ Call_Repo_CreateRole(IdRoleIDs, {"n1"}, {"d"})
    \/ Call_Repo_GetUserByID(IdUserIDs)
    \/ Call_Repo_GetRoleByID(IdRoleIDs)
    \/ Call_Repo_AssignRoleToUser(IdUserIDs, IdRoleIDs)
    \/ Call_Repo_RemoveRoleFromUser(IdUserIDs, IdRoleIDs)
    \/ Call_Repo_GetUserRoles(IdUserIDs, IdRoleIDs)
    \/ Call_Repo_ListUsersInRole(IdRoleIDs, IdUserIDs)
    \/ Return

SpecIds == Init /\ [][NextIds]_vars

(***************************************************************************)
(* SpecConc: concurrent callers.  A Create is two steps: the handler       *)
(* builds the entity and the repository reads the clock and marshals the   *)
(* item (Begin_...); then createItem issues its single PutItem against the *)
(* table (Store_Create).  Steps of different callers interleave freely.    *)
(***************************************************************************)
\* The item that the repository marshals for an entity of a kind.
ItemOf(kind, entity) ==
    CASE kind = "user" -> MarshalUserItem(userToItem(entity))
      [] kind = "role" -> MarshalRoleItem(roleToItem(entity))
      [] kind = "permission" -> MarshalPermissionItem(permissionToItem(entity))

\* The call record of a Create that has read the clock and not yet written.
BeginCreate(op, kind, entity, t) ==
    [op |-> op, kind |-> kind, pc |-> "put", in |-> entity, t |-> t,
     item |-> ItemOf(kind, [entity EXCEPT !.CreatedAt = t, !.UpdatedAt = t]),
     existed |-> KeyOf(ItemOf(kind, entity)) \in DOMAIN table]

Begin_Service_CreateUser(c, names, emails) ==
    /\ UNCHANGED proc
    /\ calls[c] = Idle
    /\ \E n \in names, e \in emails, t \in ClockReadings :
          /\ now' = t
          /\ calls' = [calls EXCEPT ![c] =
                BeginCreate("Service.CreateUser", "user",
                            [ID |-> "user-" \o e, DisplayName |-> n, Email |-> e,
                             CreatedAt |-> ZeroTime, UpdatedAt |-> ZeroTime], t)]
    /\ UNCHANGED <<table, created, granted, ret>>

Begin_Service_CreateRole(c, names, descriptions) ==
    /\ UNCHANGED proc
    /\ calls[c] = Idle
    /\ \E n \in names, d \in descriptions, t \in ClockReadings :
          /\ now' = t
          /\ calls' = [calls EXCEPT ![c] =
                BeginCreate("Service.CreateRole", "role",
                            [ID |-> "role-" \o n, DisplayName |-> n,
                             Description |-> d,
                             CreatedAt |-> ZeroTime, UpdatedAt |-> ZeroTime], t)]
    /\ UNCHANGED <<table, created, granted, ret>>

Begin_Service_CreatePermission(c, ids, names, descriptions) ==
    /\ UNCHANGED proc
    /\ calls[c] = Idle
    /\ \E i \in ids, n \in names, d \in descriptions, t \in ClockReadings :
          /\ now' = t
          /\ calls' = [calls EXCEPT ![c] =
                BeginCreate("Service.CreatePermission", "permission",
                            [ID |-> i, DisplayName |-> n, Description |-> d,
                             CreatedAt |-> ZeroTime, UpdatedAt |-> ZeroTime], t)]
    /\ UNCHANGED <<table, created, granted, ret>>

\* The rest of a Create, from createItem's PutItem to the service's return.
FinishCreate(tbl, call, fail) ==
    LET in == call.in
    IN  CASE call.kind = "user" ->
               LET r == Service_CreateUser(tbl, in.DisplayName, in.Email,
                                           call.t, fail)
               IN  [table |-> r.table, out |-> r.user, err |-> r.err]
          [] call.kind = "role" ->
               LET r == Service_CreateRole(tbl, in.DisplayName, in.Description,
                                           call.t, fail)
               IN  [table |-> r.table, out |-> r.role, err |-> r.err]
          [] call.kind = "permission" ->
               LET r == Service_CreatePermission(tbl, in.ID, in.DisplayName,
                                                 in.Description, call.t, fail)
               IN  [table |-> r.table, out |-> r.permission, err |-> r.err]

Store_Create(c) ==
    /\ UNCHANGED proc
    /\ calls[c] # Idle
    /\ calls[c].op \in {"Service.CreateUser", "Service.CreateRole",
                        "Service.CreatePermission"}
    /\ calls[c].pc = "put"
    /\ \E f \in BOOLEAN :
          LET call == calls[c]
              r == FinishCreate(table, call, f)
          IN  /\ table' = r.table
              /\ calls' = [calls EXCEPT ![c] =
                    [op |-> call.op, kind |-> call.kind, pc |-> "done",
                     in |-> call.in, t |-> call.t, item |-> call.item,
                     existed |-> call.existed,
                     out |-> r.out, err |-> r.err, failed |-> f]]
              /\ created' = IF r.err = Nil
                             THEN created \cup {[kind |-> call.kind, entity |-> r.out]}
                             ELSE created
    /\ UNCHANGED <<now, granted, ret>>

\* The caller takes the result; it may call again.
Complete(c) ==
    /\ UNCHANGED proc
    /\ calls[c] # Idle
    /\ calls[c].pc = "done"
    /\ calls' = [calls EXCEPT ![c] = Idle]
    /\ UNCHANGED <<table, now, created, granted, ret>>

NextConc ==
    \E c \in Callers :
        \/ Begin_Service_CreateUser(c, Names, {"e1"})
        \/ Begin_Service_CreateRole(c, {"n1"}, Descriptions)
        \/ Begin_Service_CreatePermission(c, {"a"}, Names, {"d"})
        \/ Store_Create(c)
        \/ Complete(c)

SpecConc == Init /\ [][NextConc]_vars

(***************************************************************************)
(* SpecConcRel: concurrent callers of the service on users, roles and the  *)
(* edges between them.  service.AssignRoleToUser makes three store calls   *)
(* (GetItem of the user, GetItem of the role, PutItem of the edge) and the *)
(* steps of other callers may come between them; RemoveRoleFromUser is one *)
(* DeleteItem.                                                             *)
(***************************************************************************)
\* AssignRoleToUser that goes on to the PutItem when the role lookup fails.
Service_AssignRoleToUser_Step_SkipsRoleCheck(tbl, pc, userID, roleID, t, fail) ==
    CASE pc = "getUser" ->
            LET u == Repo_GetUserByID(tbl, userID, fail)
            IN  IF u.err # Nil
                THEN [table |-> tbl, pc |-> "done",
                      err |-> Wrap("service.AssignRoleToUser: user not found", u.err)]
                ELSE [table |-> tbl, pc |-> "getRole", err |-> Nil]
      [] pc = "getRole" -> [table |-> tbl, pc |-> "put", err |-> Nil]
      [] pc = "put" ->
            LET a == Repo_AssignRoleToUser(tbl, userID, roleID, t, fail)
            IN  [table |-> a.table, pc |-> "done",
                 err |-> IF a.err # Nil THEN Wrap("service.AssignRoleToUser", a.err)
                         ELSE Nil]

\* rbacServiceImpl.AssignRoleToUser from store call `pc` to the next store
\* call or to its return.
Service_AssignRoleToUser_Step(tbl, pc, userID, roleID, t, fail) ==
    CASE pc = "getUser" ->
            LET u == Repo_GetUserByID(tbl, userID, fail)
            IN  IF u.err # Nil
                THEN [table |-> tbl, pc |-> "done",
                      err |-> Wrap("service.AssignRoleToUser: user not found", u.err)]
                ELSE [table |-> tbl, pc |-> "getRole", err |-> Nil]
      [] pc = "getRole" ->
            LET r == Repo_GetRoleByID(tbl, roleID, fail)
            IN  IF r.err # Nil
                THEN [table |-> tbl, pc |-> "done",
                      err |-> Wrap("service.AssignRoleToUser: role not found", r.err)]
                ELSE [table |-> tbl, pc |-> "put", err |-> Nil]
      [] pc = "put" ->
            LET a == Repo_AssignRoleToUser(tbl, userID, roleID, t, fail)
            IN  [table |-> a.table, pc |-> "done",
                 err |-> IF a.err # Nil THEN Wrap("service.AssignRoleToUser", a.err)
                         ELSE Nil]

\* Another caller is between the store calls of an AssignRoleToUser for the
\* same pair.
AssignInFlight(c, userID, roleID) ==
    \E d \in Callers \ {c} :
        /\ calls[d] # Idle
        /\ calls[d].op = "Service.AssignRoleToUser"
        /\ calls[d].pc # "done"
        /\ calls[d].u = userID /\ calls[d].r = roleID

\* The pairs for which other callers are between the store calls of an
\* AssignRoleToUser.
OthersInFlight(c) ==
    {<<calls[d].u, calls[d].r>> :
        d \in {x \in Callers \ {c} : /\ calls[x] # Idle
                                     /\ calls[x].op = "Service.AssignRoleToUser"
                                     /\ calls[x].pc # "done"}}

Assign_GetUser(c, userIDs, roleIDs) ==
    /\ UNCHANGED proc
    /\ calls[c] = Idle
    /\ \E u \in userIDs, r \in roleIDs, f \in BOOLEAN :
          LET st == Service_AssignRoleToUser_Step(table, "getUser", u, r, ZeroTime, f)
          IN  calls' = [calls EXCEPT ![c] =
                 [op |-> "Service.AssignRoleToUser", pc |-> st.pc, u |-> u, r |-> r,
                  t |-> ZeroTime, err |-> st.err, failed |-> f, raced |-> FALSE,
                  over |-> {},
                  ready |-> {<<UserPrefix \o u, MetadataPrefix \o u>>,
                             <<RolePrefix \o r, MetadataPrefix \o r>>}
                                \subseteq DOMAIN table]]
    /\ UNCHANGED <<table, now, created, granted, ret>>

Assign_GetRole(c) ==
    /\ UNCHANGED proc
    /\ calls[c] # Idle
    /\ calls[c].op = "Service.AssignRoleToUser"
    /\ calls[c].pc = "getRole"
    /\ \E f \in BOOLEAN :
          LET call == calls[c]
              st == Service_AssignRoleToUser_Step(table, "getRole", call.u, call.r,
                                                  ZeroTime, f)
          IN  calls' = [calls EXCEPT ![c] =
                 [call EXCEPT !.pc = st.pc, !.err = st.err, !.failed = f]]
    /\ UNCHANGED <<table, now, created, granted, ret>>

Assign_Put(c) ==
    /\ UNCHANGED proc
    /\ calls[c] # Idle
    /\ calls[c].op = "Service.AssignRoleToUser"
    /\ calls[c].pc = "put"
    /\ \E t \in ClockReadings, f \in BOOLEAN :
          LET call == calls[c]
              st == Service_AssignRoleToUser_Step(table, "put", call.u, call.r, t, f)
          IN  /\ table' = st.table
              /\ now' = t
              /\ calls' = [calls EXCEPT ![c] =
                    [call EXCEPT !.pc = st.pc, !.err = st.err, !.failed = f,
                                 !.t = t,
                                 !.raced = AssignInFlight(c, call.u, call.r),
                                 !.over = OthersInFlight(c)]]
    /\ UNCHANGED <<created, granted, ret>>

Remove_Delete(c, userIDs, roleIDs) ==
    /\ UNCHANGED proc
    /\ calls[c] = Idle
    /\ \E u \in userIDs, r \in roleIDs, f \in BOOLEAN :
          LET d == Service_RemoveRoleFromUser(table, u, r, f)
          IN  /\ table' = d.table
              /\ calls' = [calls EXCEPT ![c] =
                    [op |-> "Service.RemoveRoleFromUser", pc |-> "done",
                     u |-> u, r |-> r, err |-> d.err, failed |-> f,
                     over |-> OthersInFlight(c)]]
    /\ UNCHANGED <<now, created, granted, ret>>

ConcUserIDs == {"user-e1"}
ConcRoleIDs == {"role-n1", "role-n2"}

NextConcRel ==
    \E c \in Callers :
        \/ Begin_Service_CreateUser(c, {"n1"}, {"e1"})
        \/ Begin_Service_CreateRole(c, {"n1"}, {"d"})
        \/ Begin_Service_CreatePermission(c, {"role-n2"}, {"n1"}, {"d"})
        \/ Store_Create(c)
        \/ Assign_GetUser(c, ConcUserIDs, ConcRoleIDs)
        \/ Assign_GetRole(c)
        \/ Assign_Put(c)
        \/ Remove_Delete(c, ConcUserIDs, ConcRoleIDs)
        \/ Complete(c)

SpecConcRel == Init /\ [][NextConcRel]_vars

(***************************************************************************)
(* Properties of the relation store and the resolver (SpecRel).            *)
(***************************************************************************)
\* The key of the metadata record of an entity stored under `prefix`.
MetadataKey(prefix, id) == <<prefix \o id, MetadataPrefix \o id>>

\* The key of the edge record user -> role.
EdgeKey(userID, roleID) == <<UserPrefix \o userID, RolePrefix \o roleID>>

HasEdge(tbl, userID, roleID) == EdgeKey(userID, roleID) \in DOMAIN tbl

\* The table holds no user -> role edge record of the user.
NoEdges(tbl, userID) ==
    \A k \in DOMAIN tbl :
        ~(k[1] = UserPrefix \o userID /\ BeginsWith(k[2], RolePrefix))

\* The number of edge records of the user in the table.
EdgeCount(tbl, userID) ==
    Cardinality({k \in DOMAIN tbl :
                    k[1] = UserPrefix \o userID /\ BeginsWith(k[2], RolePrefix)})

\* No store call of the last UserHasPermission / GetUserRoles call failed.
StoreAnswered ==
    /\ ~PageFetchFails(EdgeCount(ret.pre, ret.u), ret.failAt)
    /\ ret.roleFail = {}

\* C1 (as claimed): once user u, role r and permission p are created, p is
\* assigned to r and r to u, UserHasPermission(u, p) returns (true, nil).
C1_GrantedThroughRole ==
    (/\ ret.op = "Service.UserHasPermission"
     /\ StoreAnswered
     /\ Created("user", ret.u)
     /\ Created("permission", ret.p)
     /\ \E r \in RoleIDs :
           /\ Created("role", r)
           /\ <<r, ret.p>> \in granted
           /\ HasEdge(ret.pre, ret.u, r))
    => (ret.ok = TRUE /\ ret.err = Nil)

\* C2: for a user identity without user -> role edge records, created or
\* not, UserHasPermission returns (false, nil) whenever the role query is
\* answered by the store.
C2_NoRolesDenied ==
    (/\ ret.op = "Service.UserHasPermission"
     /\ NoEdges(ret.pre, ret.u)
     /\ ~PageFetchFails(0, ret.failAt))
    => (ret.ok = FALSE /\ ret.err = Nil)

C2_Witness ==
    /\ ret.op = "Service.UserHasPermission"
    /\ NoEdges(ret.pre, ret.u)
    /\ ~Created("user", ret.u)
    /\ MetadataKey(UserPrefix, ret.u) \notin DOMAIN ret.pre
    /\ ~PageFetchFails(0, ret.failAt)
    /\ ret.ok = FALSE
    /\ ret.err = Nil

\* The roles still assigned to the user that were given the permission.
GrantingRoles(tbl, userID, permissionID) ==
    {r \in RoleIDs : HasEdge(tbl, userID, r) /\ <<r, permissionID>> \in granted}

IsRemove(op) ==
    op \in {"Repo.RemoveRoleFromUser", "Service.RemoveRoleFromUser"}

\* C3: once RemoveRoleFromUser(u, r) has returned nil, r is not among the
\* roles resolved for u, and UserHasPermission(u, p) is false for every
\* permission p that no role still assigned to u was given, whatever the
\* store does during the check.
C3_RemovedRoleGrantsNothing ==
    (IsRemove(ret.op) /\ ret.err = Nil) =>
        \A failAt \in FailPages(RoleIDs), roleFail \in SUBSET RoleIDs :
            /\ \A role \in Range(Repo_GetUserRoles(table, ret.u, failAt,
                                                   roleFail).roles) :
                   role.ID # ret.r
            /\ \A p \in PermissionIDs :
                   GrantingRoles(table, ret.u, p) = {} =>
                       ~Service_UserHasPermission(table, ret.u, p, failAt,
                                                  roleFail).ok

C3_Witness ==
    /\ ret.op = "Service.RemoveRoleFromUser"
    /\ ret.err = Nil
    /\ HasEdge(ret.pre, ret.u, ret.r)
    /\ Created("role", ret.r)
    /\ <<ret.r, "c">> \in granted
    /\ GrantingRoles(table, ret.u, "c") = {}
    /\ \E r2 \in RoleIDs : HasEdge(table, ret.u, r2) /\ Created("role", r2)

\* C4: UserHasPermission(u, p) is false unless some role r has its edge
\* record (USER#u, ROLE#r) and its metadata record in the table and was
\* given p; and it is false whenever it returns an error.
C4_FailClosed ==
    ret.op = "Service.UserHasPermission" =>
        /\ ret.err # Nil => ret.ok = FALSE
        /\ (~\E r \in RoleIDs :
                /\ HasEdge(ret.pre, ret.u, r)
                /\ MetadataKey(RolePrefix, r) \in DOMAIN ret.pre
                /\ <<r, ret.p>> \in granted)
            => ret.ok = FALSE

C4_Witness ==
    /\ ret.op = "Service.UserHasPermission"
    /\ ret.err # Nil
    /\ ret.ok = FALSE
    /\ \E r \in RoleIDs :
          /\ HasEdge(ret.pre, ret.u, r)
          /\ MetadataKey(RolePrefix, r) \in DOMAIN ret.pre
          /\ <<r, ret.p>> \in granted

IsAssign(op) == op \in {"Repo.AssignRoleToUser", "Service.AssignRoleToUser"}

\* C10: AssignRoleToUser for a pair whose edge record exists (through the
\* service: for a user and a role whose metadata records exist) returns nil
\* when the store answers, and leaves the table as it was but for the
\* AssignedAt attribute of that one edge record, which takes the time of the
\* last call; the roles GetUserRoles returns for the user are the same, in
\* number and content.
C10_AssignIdempotent ==
    (/\ IsAssign(ret.op)
     /\ ret.fails = {}
     /\ HasEdge(ret.pre, ret.u, ret.r)
     /\ ret.op = "Service.AssignRoleToUser" =>
            /\ MetadataKey(UserPrefix, ret.u) \in DOMAIN ret.pre
            /\ MetadataKey(RolePrefix, ret.r) \in DOMAIN ret.pre)
    => LET k == EdgeKey(ret.u, ret.r)
       IN  /\ ret.err = Nil
           /\ DOMAIN table = DOMAIN ret.pre
           /\ \A q \in DOMAIN table \ {k} : table[q] = ret.pre[q]
           /\ DOMAIN table[k] = DOMAIN ret.pre[k]
           /\ \A a \in DOMAIN table[k] \ {"AssignedAt"} :
                  table[k][a] = ret.pre[k][a]
           /\ table[k]["AssignedAt"] = FormatRFC3339(ret.t)
           /\ EdgeCount(table, ret.u) = EdgeCount(ret.pre, ret.u)
           /\ Repo_GetUserRoles(table, ret.u, 0, {})
                  = Repo_GetUserRoles(ret.pre, ret.u, 0, {})

C10_Witness ==
    /\ ret.op = "Repo.AssignRoleToUser"
    /\ ret.fails = {}
    /\ HasEdge(ret.pre, ret.u, ret.r)
    /\ ret.err = Nil
    /\ Created("role", ret.r)
    /\ Len(Repo_GetUserRoles(table, ret.u, 0, {}).roles) = 2
    /\ table[EdgeKey(ret.u, ret.r)]["AssignedAt"]
           # ret.pre[EdgeKey(ret.u, ret.r)]["AssignedAt"]

(***************************************************************************)
(* Properties of the entity store (Spec).                                  *)
(***************************************************************************)
IsCreate(op) ==
    op \in {"Repo.CreateUser", "Repo.CreateRole", "Repo.CreatePermission",
            "Service.CreateUser", "Service.CreateRole",
            "Service.CreatePermission"}

\* C5: a Create of an entity whose kind and identity were created before
\* returns an error, which matches ErrAlreadyExists when the store answers
\* (also through the service's wrapping), and leaves the table, hence every
\* field of the original record, as it was.
C5_DuplicateCreateRejected ==
    (IsCreate(ret.op) /\ ret.existed)
    => /\ ret.err # Nil
       /\ ~ret.failed => ErrorsIs(ret.err, ErrAlreadyExists)
       /\ table = ret.pre

C5_Witness ==
    /\ ret.op = "Service.CreateUser"
    /\ ret.existed
    /\ ErrorsIs(ret.err, ErrAlreadyExists)
    /\ ret.err # ErrAlreadyExists
    /\ table = ret.pre
    /\ \E c \in created :
          /\ c.kind = "user"
          /\ c.entity.ID = ret.in.ID
          /\ c.entity.DisplayName # ret.in.DisplayName
          /\ c.entity.CreatedAt # ret.t

\* C7 (as claimed): a Create fails with ErrAlreadyExists only if an entity
\* of the same kind with that identity was created before.
C7_UniquePerKind ==
    (IsCreate(ret.op) /\ ErrorsIs(ret.err, ErrAlreadyExists)) => ret.existed

\* C8 (as claimed): GetUserByID and GetRoleByID return every created user
\* and role as it was stamped at creation, and for an identity that was not
\* created they return an error that matches ErrNotFound when the store
\* answers, also through service.GetUser.
C8_UserRoleRoundTrip ==
    /\ \A c \in created :
          /\ c.kind = "user" =>
                Repo_GetUserByID(table, c.entity.ID, FALSE)
                    = [user |-> c.entity, err |-> Nil]
          /\ c.kind = "role" =>
                Repo_GetRoleByID(table, c.entity.ID, FALSE)
                    = [role |-> c.entity, err |-> Nil]
    /\ (/\ ret.op \in {"Repo.GetUserByID", "Repo.GetRoleByID", "Service.GetUser"}
        /\ ~ret.failed
        /\ ~Created(ret.kind, ret.id))
       => ErrorsIs(ret.err, ErrNotFound)

\* C9 (as claimed): GetPermissionByID returns every created permission with
\* its identity, display name and description.
C9_PermissionRoundTrip ==
    \A c \in created :
        c.kind = "permission" =>
            LET g == Repo_GetPermissionByID(table, c.entity.ID, FALSE)
            IN  /\ g.err = Nil
                /\ g.permission.ID = c.entity.ID
                /\ g.permission.DisplayName = c.entity.DisplayName
                /\ g.permission.Description = c.entity.Description

(***************************************************************************)
(* Properties of concurrent callers (SpecConc).                            *)
(***************************************************************************)
\* Two callers have both finished a Create of the same kind and identity,
\* both began while no record was stored under the key, and the store
\* answered both.
CreateRace(c, d) ==
    /\ c # d
    /\ calls[c] # Idle /\ calls[d] # Idle
    /\ calls[c].pc = "done" /\ calls[d].pc = "done"
    /\ calls[c].kind = calls[d].kind
    /\ calls[c].in.ID = calls[d].in.ID
    /\ ~calls[c].existed /\ ~calls[d].existed
    /\ ~calls[c].failed /\ ~calls[d].failed

\* C6: when two callers create an entity of the same kind and identity
\* concurrently, in whatever order their steps interleave, exactly one call
\* returns nil and the other returns an error matching ErrAlreadyExists,
\* and the record stored under the key is the item of the call that
\* returned nil, attribute for attribute.
C6_CreateRaceOneWinner ==
    \A c \in Callers, d \in Callers :
        (CreateRace(c, d) /\ calls[c].err = Nil)
        => /\ calls[d].err # Nil
           /\ ErrorsIs(calls[d].err, ErrAlreadyExists)
           /\ KeyOf(calls[c].item) \in DOMAIN table
           /\ table[KeyOf(calls[c].item)] = calls[c].item
           /\ calls[c].out = [calls[c].in EXCEPT !.CreatedAt = calls[c].t,
                                                 !.UpdatedAt = calls[c].t]

\* C6, the other half: in such a race one of the two calls does return nil.
C6_CreateRaceSomeWinner ==
    \A c \in Callers, d \in Callers :
        CreateRace(c, d) => (calls[c].err = Nil \/ calls[d].err = Nil)

\* C6: of two concurrent Creates of the same kind and identity exactly one
\* succeeds, the other returns ErrAlreadyExists, and the stored record is
\* the winner's.
C6_CreateRace == C6_CreateRaceOneWinner /\ C6_CreateRaceSomeWinner

\* The caller that read the clock first lost the race to a caller with other
\* field values.
C6_Witness ==
    \E c \in Callers, d \in Callers :
        /\ CreateRace(c, d)
        /\ calls[c].err = Nil
        /\ ErrorsIs(calls[d].err, ErrAlreadyExists)
        /\ calls[d].t < calls[c].t
        /\ calls[d].in.DisplayName # calls[c].in.DisplayName
        /\ calls[d].item # calls[c].item
        /\ table[KeyOf(calls[c].item)] = calls[c].item

(***************************************************************************)
(* Further properties of the relation store and the resolver (SpecRel).    *)
(***************************************************************************)
\* C12: RemoveRoleFromUser returns nil whenever the store answers; for an
\* edge that has no record (never assigned, removed before, user or role
\* never created) it leaves the table as it was; and removing the same edge
\* once more changes nothing and returns nil again.
C12_RemoveIdempotent ==
    (IsRemove(ret.op) /\ ~ret.failed) =>
        /\ ret.err = Nil
        /\ ~HasEdge(ret.pre, ret.u, ret.r) => table = ret.pre
        /\ ~HasEdge(table, ret.u, ret.r)
        /\ Repo_RemoveRoleFromUser(table, ret.u, ret.r, FALSE)
               = [table |-> table, err |-> Nil]
        /\ Service_RemoveRoleFromUser(table, ret.u, ret.r, FALSE)
               = [table |-> table, err |-> Nil]

C12_Witness ==
    /\ ret.op = "Service.RemoveRoleFromUser"
    /\ ~ret.failed
    /\ ~HasEdge(ret.pre, ret.u, ret.r)
    /\ MetadataKey(UserPrefix, ret.u) \notin DOMAIN ret.pre
    /\ MetadataKey(RolePrefix, ret.r) \notin DOMAIN ret.pre
    /\ ret.pre # EmptyMap
    /\ ret.err = Nil
    /\ table = ret.pre

\* The message that service.AssignRoleToUser puts in front of its cause.
UserNotFoundMsg == "service.AssignRoleToUser: user not found"
RoleNotFoundMsg == "service.AssignRoleToUser: role not found"

RolePermissionIDs(tbl, roleID) ==
    LET ps == Repo_GetRolePermissions(tbl, roleID)
    IN  {ps.permissions[j].ID : j \in 1..Len(ps.permissions)}

\* C16 (as claimed): service.AssignPermissionToRole(r, p) returns nil when
\* role r and permission p were created and the store answers, and p is
\* then among the permissions of r; when r or p was never created it
\* returns an error.
C16_AssignPermissionToRole ==
    ret.op = "Service.AssignPermissionToRole" =>
        /\ (/\ ret.fails = {}
            /\ Created("role", ret.r)
            /\ Created("permission", ret.p))
           => /\ ret.err = Nil
              /\ ret.p \in RolePermissionIDs(table, ret.r)
        /\ (~Created("role", ret.r) \/ ~Created("permission", ret.p))
           => (ret.err # Nil /\ table = ret.pre)

\* C19 (as claimed): UserHasPermission returns an error only when the role
\* query fails; and when one role of the user cannot be resolved while
\* another role of the user, resolved, was given the permission, it returns
\* (true, nil).
C19_PartialDegradation ==
    ret.op = "Service.UserHasPermission" =>
        /\ ret.err # Nil => PageFetchFails(EdgeCount(ret.pre, ret.u), ret.failAt)
        /\ (/\ ~PageFetchFails(EdgeCount(ret.pre, ret.u), ret.failAt)
            /\ Created("user", ret.u)
            /\ Created("permission", ret.p)
            /\ \E bad \in ret.roleFail : HasEdge(ret.pre, ret.u, bad)
            /\ \E r \in RoleIDs \ ret.roleFail :
                  /\ HasEdge(ret.pre, ret.u, r)
                  /\ Created("role", r)
                  /\ <<r, ret.p>> \in granted)
           => (ret.ok = TRUE /\ ret.err = Nil)

\* C17 (as claimed): a UserHasPermission call whose context is cancelled
\* before it returns gives a non-nil error, and does not answer (false, nil)
\* for a user with a role that was given the permission.
C17_CancelledIsError ==
    (ret.op = "Service.UserHasPermission" /\ ret.cancelAt > 0) =>
        /\ ret.err # Nil
        /\ (\E r \in RoleIDs :
               /\ HasEdge(ret.pre, ret.u, r)
               /\ Created("role", r)
               /\ <<r, ret.p>> \in granted)
           => ~(ret.ok = FALSE /\ ret.err = Nil)

(***************************************************************************)
(* Properties of the paginated traversals (SpecList).                      *)
(***************************************************************************)
\* The identifiers of the users that ListUsersInRole returns for a role and
\* of the roles that GetUserRoles returns for a user, the store answering.
UsersInRole(tbl, roleID) ==
    {u.ID : u \in Range(Repo_ListUsersInRole(tbl, roleID, 0, {}).users)}

RolesOfUser(tbl, userID) ==
    {r.ID : r \in Range(Repo_GetUserRoles(tbl, userID, 0, {}).roles)}

\* C13 (as claimed): after any sequence of the repository operations
\* CreateUser, CreateRole, AssignRoleToUser and RemoveRoleFromUser, for
\* every role R ListUsersInRole(R) returns exactly the users U for which
\* GetUserRoles(U) includes R.
C13_IndexForwardConsistency ==
    \A R \in ListRoleIDs :
        UsersInRole(table, R) = {U \in ListUserIDs : R \in RolesOfUser(table, U)}

IsTraversal(op) ==
    op \in {"Repo.GetUserRoles", "Repo.ListUsersInRole", "Repo.ListAllUsers"}

\* The number of items that the query of the last traversal ranges over.
TraversalItems ==
    CASE ret.op = "Repo.GetUserRoles" ->
            Len(Query(ret.pre, UserPrefix \o ret.u, RolePrefix))
      [] ret.op = "Repo.ListUsersInRole" ->
            Len(QueryGSI1(ret.pre, RolePrefix \o ret.r, UserPrefix))
      [] ret.op = "Repo.ListAllUsers" ->
            Cardinality(EntityTypeIndexKeys(ret.pre, EntityTypeUser))

\* What the last traversal returned beside its error.
TraversalResult ==
    IF ret.op = "Repo.GetUserRoles" THEN ret.roles ELSE ret.users

\* C18: a traversal (GetUserRoles, ListUsersInRole, ListAllUsers) in which
\* the fetch of a page fails returns an error and an empty (nil) result,
\* whatever the earlier pages gave; with a nil error no page fetch failed.
C18_PageFailureAborts ==
    IsTraversal(ret.op) =>
        /\ PageFetchFails(TraversalItems, ret.failAt)
               => (ret.err # Nil /\ TraversalResult = << >>)
        /\ ret.err = Nil => ~PageFetchFails(TraversalItems, ret.failAt)
        /\ table = ret.pre

\* The second page of ListUsersInRole fails after the first page gave a user.
C18_Witness ==
    /\ ret.op = "Repo.ListUsersInRole"
    /\ ret.failAt = 2
    /\ ret.userFail = {}
    /\ TraversalItems = 2
    /\ Len(Repo_ListUsersInRole(ret.pre, ret.r, 0, {}).users) = 2
    /\ ret.err # Nil
    /\ ret.users = << >>

(***************************************************************************)
(* Properties of concurrent callers on the edges (SpecConcRel).            *)
(***************************************************************************)
\* A finished service.AssignRoleToUser call of caller c during which the
\* store answered, for a user and a role whose metadata records were there
\* when it began.
AssignDone(c) ==
    /\ calls[c] # Idle
    /\ calls[c].op = "Service.AssignRoleToUser"
    /\ calls[c].pc = "done"
    /\ ~calls[c].failed
    /\ calls[c].ready

\* C11: AssignRoleToUser calls of two callers for the same (user, role),
\* with their store calls interleaved in whatever order, both return nil,
\* and the table then holds the edge under its one key (USER#u, ROLE#r),
\* stamped by one of the two calls.
C11_ConcurrentAssign ==
    \A c \in Callers : \A d \in Callers \ {c} :
        (/\ AssignDone(c) /\ AssignDone(d)
         /\ calls[c].u = calls[d].u /\ calls[c].r = calls[d].r)
        => LET k == EdgeKey(calls[c].u, calls[c].r)
           IN  /\ calls[c].err = Nil /\ calls[d].err = Nil
               /\ k \in DOMAIN table
               /\ Cardinality({q \in DOMAIN table :
                                  /\ q[1] = UserPrefix \o calls[c].u
                                  /\ q[2] = RolePrefix \o calls[c].r}) = 1
               /\ table[k]["AssignedAt"] \in {FormatRFC3339(calls[c].t),
                                              FormatRFC3339(calls[d].t)}

\* Both calls found no edge; the second PutItem came while the first caller
\* had finished and the first PutItem while the second caller was between
\* its store calls.
C11_Witness ==
    \E c \in Callers : \E d \in Callers \ {c} :
        /\ AssignDone(c) /\ AssignDone(d)
        /\ calls[c].u = calls[d].u /\ calls[c].r = calls[d].r
        /\ calls[c].raced
        /\ calls[c].err = Nil /\ calls[d].err = Nil
        /\ calls[c].t # calls[d].t
        /\ table[EdgeKey(calls[c].u, calls[c].r)]["AssignedAt"]
               = FormatRFC3339(calls[d].t)

\* The edge records of the table as pairs of identifiers.
EdgesOf(tbl) ==
    {<<StripPrefix(k[1], UserPrefix), StripPrefix(k[2], RolePrefix)>> :
        k \in {q \in DOMAIN tbl : /\ BeginsWith(q[1], UserPrefix)
                                  /\ BeginsWith(q[2], RolePrefix)}}

InvalidIdentity(id) ==
    id = "" \/ \E i \in 1..Len(id) : SubSeq(id, i, i) = "#"

\* The identifiers from which the last call built its keys.
CallIDs ==
    CASE IsCreate(ret.op) -> {ret.in.ID}
      [] ret.op \in {"Repo.GetUserByID", "Repo.GetRoleByID"} -> {ret.id}
      [] IsAssign(ret.op) \/ IsRemove(ret.op) -> {ret.u, ret.r}
      [] ret.op = "Repo.GetUserRoles" -> {ret.u}
      [] ret.op = "Repo.ListUsersInRole" -> {ret.r}
      [] OTHER -> {}

\* C20 (as claimed): an operation given an identifier that is empty or
\* holds '#' returns an error and leaves the table as it was.
C20_InvalidIdentityRejected ==
    (ret # Idle /\ \E id \in CallIDs : InvalidIdentity(id))
    => (ret.err # Nil /\ table = ret.pre)

(***************************************************************************)
(* Further properties of the entity store (Spec).                          *)
(***************************************************************************)
\* C21: a Create of a user, role or permission that returns nil hands back
\* the entity with CreatedAt equal to the clock reading of the call and
\* UpdatedAt equal to CreatedAt, whatever times the caller passed in, and
\* stores these times; every stored metadata record carries a clock reading
\* in both attributes, never a time of a caller.
C21_ServerSideTimestamps ==
    /\ (IsCreate(ret.op) /\ ret.err = Nil) =>
           LET k == KeyOf(ItemOf(ret.kind, ret.out))
           IN  /\ ret.out.CreatedAt = ret.t
               /\ ret.out.UpdatedAt = ret.out.CreatedAt
               /\ k \in DOMAIN table
               /\ table[k]["CreatedAt"] = ret.t
               /\ table[k]["UpdatedAt"] = ret.t
    /\ \A k \in DOMAIN table :
           "CreatedAt" \in DOMAIN table[k] =>
               /\ table[k]["CreatedAt"] \in 1..now
               /\ table[k]["UpdatedAt"] = table[k]["CreatedAt"]

C21_Witness ==
    /\ ret.op = "Repo.CreateUser"
    /\ ret.err = Nil
    /\ ret.in.CreatedAt = MaxTime + 1
    /\ ret.in.CreatedAt # ret.t
    /\ ret.out.CreatedAt = ret.t
    /\ table[MetadataKey(UserPrefix, ret.in.ID)]["CreatedAt"] = ret.t

(***************************************************************************)
(* SpecAll: every operation of the service next to the traversals of the   *)
(* user repository, over one user, one role and one permission.            *)
(***************************************************************************)
Call_Service_GetAllRoles ==
    /\ UNCHANGED proc
    /\ ret = Idle
    /\ UNCHANGED calls
    /\ LET l == Service_GetAllRoles(table)
       IN  ret' = [op |-> "Service.GetAllRoles", out |-> l.roles, err |-> l.err,
                   pre |-> table]
    /\ UNCHANGED <<table, now, created, granted>>

Call_Service_GetAllPermissions ==
    /\ UNCHANGED proc
    /\ ret = Idle
    /\ UNCHANGED calls
    /\ LET l == Service_GetAllPermissions(table)
       IN  ret' = [op |-> "Service.GetAllPermissions", out |-> l.permissions,
                   err |-> l.err, pre |-> table]
    /\ UNCHANGED <<table, now, created, granted>>

AllUserIDs == {"user-e1"}
AllRoleIDs == {"role-n1"}
AllPermissionIDs == {"b"}

NextAll ==
    \/ Call_Service_CreateUser({"n1"}, {"e1"})
    \/ Call_Service_CreateRole({"n1"}, {"d"})
    \/ Call_Service_CreatePermission(AllPermissionIDs, {"n1"}, {"d"})
    \/ Call_Service_GetUser(AllUserIDs)
    \/ Call_Service_AssignRoleToUser(AllUserIDs, AllRoleIDs)
    \/ Call_Service_RemoveRoleFromUser(AllUserIDs, AllRoleIDs)
    \/ Call_Service_GetUserRoles(AllUserIDs, AllRoleIDs)
    \/ Call_Service_AssignPermissionToRole(AllRoleIDs, AllPermissionIDs)
    \/ Call_Service_GetAllRoles
    \/ Call_Service_GetAllPermissions
    \/ Call_Service_UserHasPermission(AllUserIDs, AllRoleIDs, AllPermissionIDs)
    \/ Call_Repo_ListUsersInRole(AllRoleIDs, AllUserIDs)
    \/ Call_Repo_ListAllUsers(AllUserIDs)
    \/ Return

SpecAll == Init /\ [][NextAll]_vars

CreatedOf(kind) == {c.entity : c \in {x \in created : x.kind = kind}}

\* C22: once roles and permissions were created, GetAllRoles returns
\* exactly the created roles and GetAllPermissions returns exactly the
\* created permissions, each with a nil error.
C22_ListAllRolesAndPermissions ==
    /\ ret.op = "Service.GetAllRoles" =>
           /\ ret.err = Nil
           /\ Range(ret.out) = CreatedOf("role")
    /\ ret.op = "Service.GetAllPermissions" =>
           /\ ret.err = Nil
           /\ Range(ret.out) = CreatedOf("permission")

(***************************************************************************)
(* The listing of the users (SpecList).                                    *)
(***************************************************************************)
\* C23: with the store answering, ListAllUsers returns every created user
\* exactly once and nothing that is not a created user; the records of the
\* roles add no entry and duplicate none.
C23_ListAllUsersExact ==
    (/\ ret.op = "Repo.ListAllUsers"
     /\ ret.failAt = 0
     /\ ret.userFail = {}) =>
        /\ ret.err = Nil
        /\ {u.ID : u \in Range(ret.users)} = {e.ID : e \in CreatedOf("user")}
        /\ Len(ret.users) = Cardinality(CreatedOf("user"))

(***************************************************************************)
(* Metadata records and edge records (SpecRel).                            *)
(***************************************************************************)
IsMetadataKey(k) == BeginsWith(k[2], MetadataPrefix)

IsEdgeKey(k) == BeginsWith(k[1], UserPrefix) /\ BeginsWith(k[2], RolePrefix)

\* The two tables hold the same records under the keys that satisfy `Is`.
SameRecords(Is(_), t1, t2) ==
    \A k \in DOMAIN t1 \cup DOMAIN t2 :
        Is(k) => /\ k \in DOMAIN t1 /\ k \in DOMAIN t2
                 /\ t1[k] = t2[k]

\* C24: no key of the table is at once the key of a metadata record and of
\* an edge record; AssignRoleToUser and RemoveRoleFromUser leave every
\* metadata record (user, role, permission) as it was; a Create leaves every
\* edge record as it was and, when the store answers and no record sits
\* under the entity's own metadata key, succeeds whatever edge records the
\* table holds.
C24_MetadataAndEdgesDisjoint ==
    /\ \A k \in DOMAIN table :
           /\ IsMetadataKey(k) \/ IsEdgeKey(k)
           /\ ~(IsMetadataKey(k) /\ IsEdgeKey(k))
           /\ IsEdgeKey(k) <=> "AssignedAt" \in DOMAIN table[k]
    /\ (IsAssign(ret.op) \/ IsRemove(ret.op)) =>
           SameRecords(IsMetadataKey, ret.pre, table)
    /\ IsCreate(ret.op) =>
           /\ SameRecords(IsEdgeKey, ret.pre, table)
           /\ (/\ ~ret.failed
               /\ KeyOf(ItemOf(ret.kind, ret.in)) \notin DOMAIN ret.pre) =>
                  /\ ret.err = Nil
                  /\ KeyOf(ItemOf(ret.kind, ret.in)) \in DOMAIN table

\* A user is created while an edge record of that user is in the table, and
\* the edge record is still there.
C24_Witness ==
    /\ ret.op = "Repo.CreateUser"
    /\ ret.err = Nil
    /\ HasEdge(ret.pre, ret.in.ID, "a")
    /\ HasEdge(table, ret.in.ID, "a")
    /\ MetadataKey(UserPrefix, ret.in.ID) \in DOMAIN table

(***************************************************************************)
(* Operations on different pairs (SpecConcRel).                            *)
(***************************************************************************)
\* The calls AssignRoleToUser and RemoveRoleFromUser of the repository with
\* their inputs: the pair, the clock reading, and whether the store fails.
EdgeOps ==
    [kind : {"assign", "remove"}, u : ConcUserIDs, r : ConcRoleIDs,
     t : 1..MaxTime, fail : BOOLEAN]

ApplyEdgeOp(tbl, o) ==
    IF o.kind = "assign"
    THEN Repo_AssignRoleToUser(tbl, o.u, o.r, o.t, o.fail)
    ELSE Repo_RemoveRoleFromUser(tbl, o.u, o.r, o.fail)

\* From the table of the state, two repository calls on different pairs end
\* in the same table in either order, and each returns what it returns when
\* it runs alone.
EdgeOpsCommute ==
    \A o1 \in EdgeOps : \A o2 \in EdgeOps :
        <<o1.u, o1.r>> # <<o2.u, o2.r>> =>
            LET a == ApplyEdgeOp(table, o1)
                b == ApplyEdgeOp(table, o2)
                ab == ApplyEdgeOp(a.table, o2)
                ba == ApplyEdgeOp(b.table, o1)
            IN  /\ ab.table = ba.table
                /\ ab.err = b.err
                /\ ba.err = a.err

\* Caller c returns from an AssignRoleToUser or RemoveRoleFromUser in this
\* step.
EdgeCallReturns(c) ==
    /\ calls'[c] # calls[c]
    /\ calls'[c] # Idle
    /\ calls'[c].op \in {"Service.AssignRoleToUser", "Service.RemoveRoleFromUser"}
    /\ calls'[c].pc = "done"

\* The step of an edge call changes no record but the edge record of its own
\* pair, leaves that record as the call alone determines, and returns nil
\* exactly when its store call did not fail, whatever the other caller is
\* doing.
EdgeStepIndependent ==
    \A c \in Callers :
        EdgeCallReturns(c) =>
            LET call == calls'[c]
                k == EdgeKey(call.u, call.r)
                wrote == \/ call.op = "Service.RemoveRoleFromUser"
                         \/ (calls[c] # Idle /\ calls[c].pc = "put")
            IN  /\ \A q \in (DOMAIN table \cup DOMAIN table') \ {k} :
                       /\ q \in DOMAIN table /\ q \in DOMAIN table'
                       /\ table'[q] = table[q]
                /\ \A d \in Callers \ {c} : calls'[d] = calls[d]
                /\ IF ~wrote \/ call.failed
                   THEN /\ table' = table
                        /\ call.err # Nil
                   ELSE /\ call.err = Nil
                        /\ IF call.op = "Service.RemoveRoleFromUser"
                           THEN k \notin DOMAIN table'
                           ELSE /\ k \in DOMAIN table'
                                /\ table'[k]["AssignedAt"] = FormatRFC3339(call.t)

\* C25: AssignRoleToUser / RemoveRoleFromUser calls on different pairs are
\* independent: in either order they end in the same table with the same
\* results, and with the store calls of two callers interleaved each call
\* changes the edge record of its own pair only and returns a result that
\* does not depend on the other call.
C25_DifferentPairsIndependent ==
    []EdgeOpsCommute /\ [][EdgeStepIndependent]_vars

\* An AssignRoleToUser wrote its edge while the other caller was between the
\* store calls of an AssignRoleToUser for another role; both returned nil
\* and both edges are in the table, each with the time of its own call.
C25_Witness ==
    \E c \in Callers : \E d \in Callers \ {c} :
        /\ AssignDone(c) /\ AssignDone(d)
        /\ calls[c].r # calls[d].r
        /\ <<calls[d].u, calls[d].r>> \in calls[c].over
        /\ calls[c].err = Nil /\ calls[d].err = Nil
        /\ calls[c].t # calls[d].t
        /\ table[EdgeKey(calls[c].u, calls[c].r)]["AssignedAt"]
               = FormatRFC3339(calls[c].t)
        /\ table[EdgeKey(calls[d].u, calls[d].r)]["AssignedAt"]
               = FormatRFC3339(calls[d].t)

(***************************************************************************)
(* The roles of a user (SpecRel).                                          *)
(***************************************************************************)
IsGetUserRoles(op) == op \in {"Repo.GetUserRoles", "Service.GetUserRoles"}

\* The roles whose edge record from the user and whose metadata record are
\* both in the table.
AssignedRolesWithMetadata(tbl, userID) ==
    {r \in RoleIDs : /\ HasEdge(tbl, userID, r)
                     /\ MetadataKey(RolePrefix, r) \in DOMAIN tbl}

\* C26 (as claimed): whenever GetUserRoles(u) returns a nil error, the roles
\* returned are exactly the roles r with the edge record (USER#u, ROLE#r)
\* and with a metadata record, each once; a failure of the store while one
\* role's metadata is fetched never gives a shorter result with a nil error.
C26_SuccessfulListingComplete ==
    (IsGetUserRoles(ret.op) /\ ret.err = Nil) =>
        /\ {r.ID : r \in Range(ret.roles)}
               = AssignedRolesWithMetadata(ret.pre, ret.u)
        /\ Len(ret.roles) = Cardinality(AssignedRolesWithMetadata(ret.pre, ret.u))

\* The edge record user -> role is in the table and no record is under the
\* key of the role's metadata.
Dangling(tbl, userID, roleID) ==
    /\ HasEdge(tbl, userID, roleID)
    /\ MetadataKey(RolePrefix, roleID) \notin DOMAIN tbl

ReadOps ==
    {"Service.UserHasPermission", "Service.GetUser", "Service.GetUserRoles",
     "Repo.ListUsersInRole", "Repo.ListAllUsers", "Service.GetAllRoles",
     "Service.GetAllPermissions"}

\* The last call was a service AssignRoleToUser that failed one of its two
\* existence checks.
ExistenceCheckFailed ==
    /\ ret.op = "Service.AssignRoleToUser"
    /\ ret.err # Nil
    /\ Head(ret.err) \in {UserNotFoundMsg, RoleNotFoundMsg}

\* C28: UserHasPermission, GetUser, GetUserRoles, ListUsersInRole,
\* ListAllUsers, GetAllRoles and GetAllPermissions leave every record of the
\* table as it was, whether they return an error or not; so do a Create that
\* fails with ErrAlreadyExists and a service AssignRoleToUser that fails an
\* existence check.
C28_ReadsLeaveStoreUnchanged ==
    /\ ret.op \in ReadOps => table = ret.pre
    /\ (IsCreate(ret.op) /\ ErrorsIs(ret.err, ErrAlreadyExists)) =>
           table = ret.pre
    /\ ExistenceCheckFailed => table = ret.pre

\* A service AssignRoleToUser for a user with a metadata record and a role
\* without one fails the check of the role and writes no edge.
C28_Witness ==
    /\ ExistenceCheckFailed
    /\ Head(ret.err) = RoleNotFoundMsg
    /\ "role" \notin ret.fails
    /\ MetadataKey(UserPrefix, ret.u) \in DOMAIN table
    /\ ~HasEdge(table, ret.u, ret.r)
    /\ table = ret.pre

(***************************************************************************)
(* SpecSvc: the Create operations of the service with two emails and two   *)
(* display names; one permission carries the identity of a role.           *)
(***************************************************************************)
SvcEmails == {"e1", "e2"}

NextSvc ==
    \/ Call_Service_CreateUser(Names, SvcEmails)
    \/ Call_Service_CreateRole(Names, {"d"})
    \/ Call_Service_CreatePermission({"role-n1"}, {"n1"}, {"d"})
    \/ Call_Service_GetUser({"user-e1", "user-e2"})
    \/ Return

SpecSvc == Init /\ [][NextSvc]_vars

\* C29: the service CreateUser uses the identity "user-" + email and
\* CreateRole the identity "role-" + display name: the entity returned and
\* the record stored carry it; of the users created no two have the same
\* email and of the roles created no two the same display name; and a
\* CreateUser (CreateRole) is refused as already existing only when its own
\* identity is taken, never on account of a user of another email (a role of
\* another display name).
C29_DerivedIdentities ==
    /\ (ret.op = "Service.CreateUser" /\ ret.err = Nil) =>
           /\ ret.out.ID = "user-" \o ret.in.Email
           /\ MetadataKey(UserPrefix, "user-" \o ret.in.Email) \in DOMAIN table
           /\ MetadataKey(UserPrefix, "user-" \o ret.in.Email) \notin DOMAIN ret.pre
    /\ (ret.op = "Service.CreateRole" /\ ret.err = Nil) =>
           /\ ret.out.ID = "role-" \o ret.in.DisplayName
           /\ MetadataKey(RolePrefix, "role-" \o ret.in.DisplayName) \in DOMAIN table
           /\ MetadataKey(RolePrefix, "role-" \o ret.in.DisplayName) \notin DOMAIN ret.pre
    /\ \A x \in CreatedOf("user") : \A y \in CreatedOf("user") :
           x.Email = y.Email => x = y
    /\ \A x \in CreatedOf("role") : \A y \in CreatedOf("role") :
           x.DisplayName = y.DisplayName => x = y
    /\ (ret.op \in {"Service.CreateUser", "Service.CreateRole"} /\ ret.existed) =>
           ret.err # Nil
    /\ (ret.op = "Service.CreateUser" /\ ~ret.failed /\ ret.err # Nil) =>
           /\ ErrorsIs(ret.err, ErrAlreadyExists)
           /\ \E x \in CreatedOf("user") : x.Email = ret.in.Email
    /\ (ret.op = "Service.CreateRole" /\ ~ret.failed /\ ret.err # Nil) =>
           /\ ErrorsIs(ret.err, ErrAlreadyExists)
           /\ \/ \E x \in CreatedOf("role") : x.DisplayName = ret.in.DisplayName
              \/ \E y \in CreatedOf("permission") :
                    y.ID = "role-" \o ret.in.DisplayName

\* A CreateUser with the email of a created user is refused, while users of
\* both emails were created.
C29_Witness ==
    /\ ret.op = "Service.CreateUser"
    /\ ret.in.Email = "e1"
    /\ ~ret.failed
    /\ ErrorsIs(ret.err, ErrAlreadyExists)
    /\ \E x \in CreatedOf("user") : x.Email = "e1" /\ x.ID = "user-e1"
    /\ \E y \in CreatedOf("user") : y.Email = "e2" /\ y.ID = "user-e2"
    /\ \E z \in CreatedOf("role") : z.DisplayName = "n2" /\ z.ID = "role-n2"

(***************************************************************************)
(* SpecMain: the server process (cmd/api/main.go).  The main goroutine     *)
(* starts gracefulShutdown and runs ListenAndServe; gracefulShutdown waits *)
(* for SIGINT or SIGTERM, shuts the server down and sends on the done      *)
(* channel.  Each action is one step of one goroutine or of the            *)
(* environment (signals, requests, a failing listener).                    *)
(***************************************************************************)
\* done := make(chan bool, 1)
DoneCap == 1

\* The requests that the server may be handling at a time.
MaxRequests == 2

Signals == {"SIGINT", "SIGTERM"}

storeVars == <<table, now, created, granted, ret, calls>>

\* The process runs: main has neither returned nor panicked, and no signal
\* has ended the process.
Alive == proc.main \notin {"exited", "panicked", "killed"}

\* go gracefulShutdown(server, done)
Main_Go ==
    /\ proc.main = "go"
    /\ proc' = [proc EXCEPT !.main = "ListenAndServe", !.shut = "NotifyContext"]
    /\ UNCHANGED storeVars

\* server.ListenAndServe() is entered: after Shutdown it returns
\* ErrServerClosed at once; otherwise it listens, or fails to.
Main_ListenAndServe ==
    /\ proc.main = "ListenAndServe"
    /\ IF proc.server = "closed"
       THEN proc' = [proc EXCEPT !.main = "check", !.err = "ErrServerClosed"]
       ELSE \/ proc' = [proc EXCEPT !.main = "serving", !.server = "listening"]
            \/ proc' = [proc EXCEPT !.main = "check", !.err = "other"]
    /\ UNCHANGED storeVars

\* ListenAndServe returns ErrServerClosed once Shutdown was called.
Main_Serve_Returns ==
    /\ proc.main = "serving"
    /\ proc.server = "closed"
    /\ proc' = [proc EXCEPT !.main = "check", !.err = "ErrServerClosed"]
    /\ UNCHANGED storeVars

\* The listener of a serving server fails: ListenAndServe returns that error.
Main_Serve_Fails ==
    /\ proc.main = "serving"
    /\ proc.server = "listening"
    /\ proc' = [proc EXCEPT !.main = "check", !.err = "other", !.server = "failed"]
    /\ UNCHANGED storeVars

\* if err != nil && err != http.ErrServerClosed { panic(...) }
Main_Check ==
    /\ proc.main = "check"
    /\ proc' = [proc EXCEPT !.main = IF proc.err \notin {"nil", "ErrServerClosed"}
                                    THEN "panicked" ELSE "waitDone"]
    /\ UNCHANGED storeVars

\* main that goes on without receiving from the done channel.
Main_ReceiveDone_NoWait ==
    /\ proc.main = "waitDone"
    /\ proc' = [proc EXCEPT !.main = "logComplete"]
    /\ UNCHANGED storeVars

\* <-done
Main_ReceiveDone ==
    /\ proc.main = "waitDone"
    /\ Len(proc.done) > 0
    /\ proc' = [proc EXCEPT !.main = "logComplete", !.done = Tail(proc.done)]
    /\ UNCHANGED storeVars

\* log.Println("Graceful shutdown complete.") and the return of main.
Main_Exit ==
    /\ proc.main = "logComplete"
    /\ proc' = [proc EXCEPT !.main = "exited"]
    /\ UNCHANGED storeVars

\* signal.NotifyContext(context.Background(), SIGINT, SIGTERM)
Shut_NotifyContext ==
    /\ Alive
    /\ proc.shut = "NotifyContext"
    /\ proc' = [proc EXCEPT !.shut = "waitSignal", !.registered = TRUE]
    /\ UNCHANGED storeVars

\* <-ctx.Done() and the log line after it.
Shut_CtxDone ==
    /\ Alive
    /\ proc.shut = "waitSignal"
    /\ proc.ctxDone
    /\ proc' = [proc EXCEPT !.shut = "Shutdown"]
    /\ UNCHANGED storeVars

\* apiServer.Shutdown(ctx) is entered: the server stops listening.
Shut_Shutdown_Call ==
    /\ Alive
    /\ proc.shut = "Shutdown"
    /\ proc' = [proc EXCEPT !.shut = "inShutdown", !.server = "closed"]
    /\ UNCHANGED storeVars

\* Shutdown returns nil: no request is being handled.
Shut_Shutdown_Returns ==
    /\ Alive
    /\ proc.shut = "inShutdown"
    /\ proc.active = 0
    /\ proc' = [proc EXCEPT !.shut = "send", !.shutdownErr = FALSE]
    /\ UNCHANGED storeVars

\* Shutdown returns the error of its context: the 5 seconds have passed
\* with requests still being handled.
Shut_Shutdown_Timeout ==
    /\ Alive
    /\ proc.shut = "inShutdown"
    /\ proc.active > 0
    /\ proc' = [proc EXCEPT !.shut = "send", !.shutdownErr = TRUE]
    /\ UNCHANGED storeVars

\* done <- true, then the return of gracefulShutdown and its deferred
\* cancel() and stop().
Shut_SendDone ==
    /\ Alive
    /\ proc.shut = "send"
    /\ Len(proc.done) < DoneCap
    /\ proc' = [proc EXCEPT !.shut = "returned",
                            !.done = Append(proc.done, TRUE),
                            !.sends = proc.sends + 1,
                            !.registered = FALSE]
    /\ UNCHANGED storeVars

\* The process is sent a signal: the context of NotifyContext is done when
\* the signal is registered; otherwise the signal ends the process.
Signal(sig) ==
    /\ Alive
    /\ proc.main # "go"
    /\ proc' = IF proc.registered
               THEN [proc EXCEPT !.ctxDone = TRUE,
                                 !.sig = IF proc.ctxDone THEN proc.sig ELSE sig]
               ELSE [proc EXCEPT !.main = "killed"]
    /\ UNCHANGED storeVars

\* A request reaches the listening server.
Request_Arrives ==
    /\ Alive
    /\ proc.main = "serving"
    /\ proc.server = "listening"
    /\ proc.active < MaxRequests
    /\ proc' = [proc EXCEPT !.active = proc.active + 1]
    /\ UNCHANGED storeVars

\* The handler of a request returns.
Request_Done ==
    /\ Alive
    /\ proc.active > 0
    /\ proc' = [proc EXCEPT !.active = proc.active - 1]
    /\ UNCHANGED storeVars

NextMain ==
    \/ Main_Go
    \/ Main_ListenAndServe
    \/ Main_Serve_Returns
    \/ Main_Serve_Fails
    \/ Main_Check
    \/ Main_ReceiveDone
    \/ Main_Exit
    \/ Shut_NotifyContext
    \/ Shut_CtxDone
    \/ Shut_Shutdown_Call
    \/ Shut_Shutdown_Returns
    \/ Shut_Shutdown_Timeout
    \/ Shut_SendDone
    \/ \E sig \in Signals : Signal(sig)
    \/ Request_Arrives
    \/ Request_Done

SpecMain == Init /\ [][NextMain]_vars

\* The goroutines are scheduled fairly, and Shutdown returns, at the latest
\* when its context times out.  Signals, requests and listener failures are
\* the environment's: nothing makes them happen.
FairMain ==
    /\ WF_vars(Main_Go)
    /\ WF_vars(Main_ListenAndServe)
    /\ WF_vars(Main_Serve_Returns)
    /\ WF_vars(Main_Check)
    /\ WF_vars(Main_ReceiveDone)
    /\ WF_vars(Main_Exit)
    /\ WF_vars(Shut_NotifyContext)
    /\ WF_vars(Shut_CtxDone)
    /\ WF_vars(Shut_Shutdown_Call)
    /\ WF_vars(Shut_Shutdown_Returns \/ Shut_Shutdown_Timeout)
    /\ WF_vars(Shut_SendDone)

SpecMainFair == SpecMain /\ FairMain

\* gracefulShutdown has called Shutdown.
ShutdownCalled == proc.shut \in {"inShutdown", "send", "returned"}

\* The order of the shutdown: Shutdown is called only once a signal has
\* come; done is sent on only after Shutdown, at most once, and the send
\* never finds the channel full; main logs completion and returns only after
\* it has received the signal sent on done, with ErrServerClosed from
\* ListenAndServe; with any other error main panics and never waits on done.
ShutdownOrder ==
    /\ (ShutdownCalled \/ proc.shut = "Shutdown") =>
           proc.ctxDone /\ proc.sig \in Signals
    /\ proc.sends \in {0, 1}
    /\ proc.sends = 1 <=> proc.shut = "returned"
    /\ proc.sends = 1 => proc.server = "closed"
    /\ Len(proc.done) <= DoneCap
    /\ proc.shut = "send" => Len(proc.done) < DoneCap
    /\ proc.main \in {"logComplete", "exited"} =>
           /\ proc.sends = 1
           /\ proc.done = << >>
           /\ proc.err = "ErrServerClosed"
    /\ proc.main = "waitDone" => proc.err = "ErrServerClosed"
    /\ proc.err = "other" => proc.main \in {"check", "panicked", "killed"}
    /\ proc.main = "panicked" => proc.err = "other"

\* C30: once SIGINT or SIGTERM has reached the process, gracefulShutdown
\* calls Shutdown and then sends on done, exactly once and without blocking
\* (unless main has panicked meanwhile); main neither logs completion nor
\* returns before that send; with the goroutines scheduled fairly main
\* returns after the send (unless a later signal, no longer registered, ends
\* the process first); and with an error other than ErrServerClosed from
\* ListenAndServe main panics instead of waiting on done.
C30_GracefulShutdown ==
    /\ []ShutdownOrder
    /\ proc.ctxDone ~> (proc.sends = 1 \/ proc.main = "panicked")
    /\ (proc.sends = 1 /\ proc.err # "other")
           ~> (proc.main = "exited" \/ proc.main = "killed")
    /\ (proc.main = "check" /\ proc.err = "other") ~> proc.main \in {"panicked", "killed"}

\* SIGTERM came while a request was being handled: Shutdown timed out, done
\* was sent on once, and main has received it and returned.
C30_Witness ==
    /\ proc.main = "exited"
    /\ proc.sig = "SIGTERM"
    /\ proc.shutdownErr
    /\ proc.sends = 1
    /\ proc.done = << >>
    /\ proc.err = "ErrServerClosed"
====
